---- MODULE Spec2Model ----
\* Model of the isup-bridge event pipeline: the ISUP v5 codec and TCP session
\* (src/isup/isup_protocol.py, src/isup/isup_server.py), the event processor
\* and its retry loop (src/core/processor.py), the tenant resolver and the
\* upstream sender (src/tenant_manager.py), the pending store
\* (src/storage.py), the ISAPI webhook (src/isapi/isapi_server.py), the
\* ISAPI device client with its Digest authentication and the device manager
\* (src/isapi/isapi_client.py, src/isapi/isapi_device_manager.py), and the
\* Hikvision alert stream and callback listener (src/hikvision/).
\*
\* Text is modelled as a sequence of character codes ("AA" is <<65, 65>>), a
\* byte string as a sequence of numbers 0..255. Null stands for Python's None
\* where a text is expected.
EXTENDS Integers, Sequences, FiniteSets, TLC

VARIABLES
  pending,    \* the files of the storage directory
  upstream,   \* the requests the 1C endpoints have received, in order
  metrics,    \* ServerMetrics counters
  task,       \* the running process_isapi_event / process_isup_packet calls
  conn,       \* one ISUP TCP connection handled by _handle_client
  retry,      \* the retry_pending_events loop
  now,        \* wall clock, in days
  nextEid,    \* next event to be ingested (history: names the event)
  nextUuid,   \* the files saved so far + 1: names the next uuid.uuid4()
  recovered,  \* environment: from now on the upstream answers 2xx
  removed,    \* history: the calls of remove and the files cleanup_old unlinked
  calls,      \* history: the processor calls that have returned
  codec,      \* a use of the ISUP codec on its own: input and results
  web,        \* the ISAPI webhook handler: its cache and the last request
  dev,        \* an ISAPI device client: its Digest state and its request
  prov,       \* the device manager provisioning the terminals
  hik         \* the Hikvision alert stream and callback listener

vars == <<pending, upstream, metrics, task, conn, retry, now, nextEid,
          nextUuid, recovered, removed, calls, codec, web, dev, prov, hik>>

------------------------------------------------------------------------------
\* Bounds of the model.

\* Calls of _request on one device client in one run.
MaxDeviceRequests == 3
\* Connection attempts of the alert stream and chunks read in one attempt.
MaxAttempts == 2
MaxChunks == 2
\* Callbacks the listener answers in one run.
MaxCallbacks == 2
\* Events handed to the processor in one run (webhook events and ISUP
\* packets together).
MaxEvents == 1
\* Frames read from the ISUP connection in one run.
MaxFrames == 2
\* Clock steps in one run.
MaxTicks == 1
\* Calls of save_pending in one run of the store on its own.
MaxSaves == 2
\* Requests the webhook handles in one run.
MaxRequests == 2
\* Clock steps of the webhook in one run.
MaxWebTicks == 2
\* Passes of the retry loop that find a record in the store, in one run
\* (passes over an empty store are not limited).
MaxIterations == 1

------------------------------------------------------------------------------
\* Text and byte helpers.

Null == <<-1>>

\* Python's None where an object (a header, an event, a tenant) is expected.
None == [none |-> TRUE]

\* bytes.hex(): two lower-case hexadecimal digits per byte; str.upper() of it
\* is the upper-case form.
HexDigit(n) == IF n < 10 THEN 48 + n ELSE 87 + n

RECURSIVE Hex(_)
Hex(b) ==
  IF b = <<>> THEN <<>>
  ELSE <<HexDigit(Head(b) \div 16), HexDigit(Head(b) % 16)>> \o Hex(Tail(b))

RECURSIVE Xor(_, _)
Xor(a, b) ==
  IF a = 0 THEN b
  ELSE IF b = 0 THEN a
  ELSE (((a % 2) + (b % 2)) % 2) + (2 * Xor(a \div 2, b \div 2))

\* str.upper() on ASCII text.
Upper(s) == [i \in 1..Len(s) |-> IF s[i] >= 97 /\ s[i] <= 122 THEN s[i] - 32 ELSE s[i]]

\* bytes.decode("ascii", errors="ignore"): bytes above 127 are dropped.
DecodeAscii(b) == SelectSeq(b, LAMBDA x : x < 128)

RECURSIVE LStripNul(_)
LStripNul(s) == IF s # <<>> /\ Head(s) = 0 THEN LStripNul(Tail(s)) ELSE s

RECURSIVE RStripNul(_)
RStripNul(s) ==
  IF s # <<>> /\ s[Len(s)] = 0 THEN RStripNul(SubSeq(s, 1, Len(s) - 1)) ELSE s

\* str.strip("\x00")
StripNul(s) == RStripNul(LStripNul(s))

\* Python slice d[a:b] with 0 <= a <= b, clipped to the length of d.
Slice(d, a, b) ==
  LET hi == IF b < Len(d) THEN b ELSE Len(d)
  IN  IF a >= hi THEN <<>> ELSE SubSeq(d, a + 1, hi)

\* A 32-bit unsigned number is kept as its two 16-bit halves <<high, low>>:
\* TLC's integers end at 2^31 - 1.
U32(high, low) == <<high, low>>

\* struct.pack(">H", n), struct.pack(">I", n)
PackU16(n) == <<(n \div 256) % 256, n % 256>>
PackU32(n) == PackU16(n[1]) \o PackU16(n[2])

\* struct.unpack(">H", b)[0], struct.unpack(">I", b)[0]
UnpackU16(b) == b[1] * 256 + b[2]
UnpackU32(b) == U32(b[1] * 256 + b[2], b[3] * 256 + b[4])

\* str(n) of a 32-bit unsigned number: its decimal digits.
RECURSIVE StrU32(_)
StrU32(n) ==
  LET mid  == (n[1] % 10) * 65536 + n[2]
      q    == U32(n[1] \div 10, mid \div 10)
      last == <<48 + (mid % 10)>>
  IN  IF q = U32(0, 0) THEN last ELSE StrU32(q) \o last

------------------------------------------------------------------------------
\* ISUP v5 codec, src/isup/isup_protocol.py.

HEADER_SIZE == 28

\* The inner loop of _crc16: n shift steps, each xoring 0xA001 in when the
\* low bit is set.
RECURSIVE Crc16Bits(_, _)
Crc16Bits(crc, n) ==
  IF n = 0 THEN crc
  ELSE IF crc % 2 = 1 THEN Crc16Bits(Xor(crc \div 2, 40961), n - 1)
  ELSE Crc16Bits(crc \div 2, n - 1)

\* The outer loop of _crc16 from byte i on. (The test on c has TLC
\* compute c before it goes on; c is never negative.)
RECURSIVE Crc16From(_, _, _)
Crc16From(crc, data, i) ==
  IF i > Len(data) THEN crc
  ELSE LET c == Crc16Bits(Xor(crc, data[i]), 8)
       IN  IF c < 0 THEN c ELSE Crc16From(c, data, i + 1)

\* ISUPv5Parser._crc16: CRC-16, polynomial 0xA001, initial value 0xFFFF.
crc16(data) == Crc16From(65535, data, 1) % 65536

\* ISUPv5Parser._verify_crc: the CRC check is left out of this parser.
verify_crc(data) == TRUE

\* A header parser that does not look at the marker.
parse_header_any_marker(d) ==
  IF Len(d) < HEADER_SIZE THEN None
  ELSE [ marker          |-> <<35, 35>>,
         version         |-> d[3],
         command_type    |-> d[4],
         data_length     |-> UnpackU16(Slice(d, 4, 6)),
         device_id       |-> StripNul(DecodeAscii(Slice(d, 6, 22))),
         sequence_number |-> UnpackU32(Slice(d, 22, 26)),
         checksum        |-> UnpackU16(Slice(d, 26, 28)) ]

\* ISUPv5Parser._parse_header: None when the marker is not "##", and when
\* indexing or struct.unpack raises because d is shorter than a header.
parse_header(d) ==
  IF Slice(d, 0, 2) # <<35, 35>> \/ Len(d) < HEADER_SIZE THEN None
  ELSE [ marker          |-> <<35, 35>>,
         version         |-> d[3],
         command_type    |-> d[4],
         data_length     |-> UnpackU16(Slice(d, 4, 6)),
         device_id       |-> StripNul(DecodeAscii(Slice(d, 6, 22))),
         sequence_number |-> UnpackU32(Slice(d, 22, 26)),
         checksum        |-> UnpackU16(Slice(d, 26, 28)) ]

\* Timestamp of an event whose device gave none or an invalid one: the time
\* of ingestion (datetime.now()).
IngestionTime == <<0>>

\* ISUPv5Parser._parse_timestamp: datetime(2000 + yy, mm, dd, hh, mi, ss), or
\* the ingestion time when the six bytes are no valid date. (Validity of the
\* day within its month is not modelled.)
parse_timestamp(b) ==
  IF /\ Len(b) = 6
     /\ b[2] >= 1 /\ b[2] <= 12 /\ b[3] >= 1 /\ b[3] <= 31
     /\ b[4] < 24 /\ b[5] < 60 /\ b[6] < 60
  THEN <<2000 + b[1], b[2], b[3], b[4], b[5], b[6]>>
  ELSE IngestionTime

\* ISUPv5Parser._map_access_type
map_access_type(v) ==
  IF v = 1 THEN "CARD" ELSE IF v = 2 THEN "FINGERPRINT" ELSE IF v = 3 THEN "FACE"
  ELSE "UNKNOWN"

\* ISUPv5Parser._map_direction
map_direction(v) == IF v = 1 THEN "IN" ELSE IF v = 2 THEN "OUT" ELSE "UNKNOWN"

\* The shortest body _parse_access_event accepts.
MinEventBody == 26

\* ISUPv5Parser._parse_access_event: None when the body is too short.
parse_access_event(header, d, raw) ==
  IF Len(d) < MinEventBody THEN None
  ELSE [ header        |-> header,
         card_number   |-> Upper(Hex(Slice(d, 8, 16))),
         access_type   |-> map_access_type(d[3]),
         direction     |-> map_direction(d[4]),
         timestamp     |-> parse_timestamp(Slice(d, 16, 22)),
         door_number   |-> d[23],
         reader_number |-> d[24],
         verify_result |-> d[25],
         user_id       |-> StrU32(UnpackU32(Slice(d, 4, 8))),
         raw_packet    |-> raw ]

\* ISUPv5Parser.parse: the access event of a packet, or None.
parse(packet, strict_mode) ==
  IF Len(packet) < HEADER_SIZE THEN None
  ELSE LET header == parse_header(packet)
       IN  IF header = None THEN None
           ELSE IF ~verify_crc(packet) /\ strict_mode THEN None
           ELSE parse_access_event(
                  header,
                  Slice(packet, HEADER_SIZE, HEADER_SIZE + header.data_length),
                  packet)

\* The six bytes both ACKs start with: "##", version 0x01, command 0x20 and
\* the length field.
AckHeader(length) == <<35, 35, 1, 32>> \o PackU16(length)

\* An ACK that packs the sequence number with ">H" into a zeroed field: its
\* upper 16 bits are lost.
make_ack_u16(sequence_number) ==
  LET header == AckHeader(2)
      body   == <<79, 75, 0, 0>> \o PackU16(sequence_number[2])
  IN  header \o body \o PackU16(crc16(header \o body))

\* ISUPv5Parser.make_ack: header, "OK", the sequence number, CRC.
make_ack(sequence_number) ==
  LET header == AckHeader(2)
      body   == <<79, 75>> \o PackU32(sequence_number)
  IN  header \o body \o PackU16(crc16(header \o body))

\* ISUPv5Parser.make_heartbeat_ack: header with length 0, CRC.
make_heartbeat_ack ==
  LET header == AckHeader(0)
  IN  header \o PackU16(crc16(header))

------------------------------------------------------------------------------
\* Tenant manager, src/tenant_manager.py.

\* The configuration the manager is built from: the tenant catalog and the
\* terminal bindings. T1 has a 1C endpoint, T2 has none configured; one
\* terminal is bound to a tenant that is not in the catalog.
Mac_aa == <<97, 97>>
Mac_BB == <<66, 66>>
Mac_CC == <<67, 67>>
Mac_DD == <<68, 68>>

CfgTenants ==
  [ n \in {"T1", "T2"} |->
      IF n = "T1" THEN [api_url |-> "http://1c/t1", api_token |-> "tok1"]
      ELSE [api_url |-> "", api_token |-> "tok2"] ]

CfgTerminals ==
  << [mac |-> Mac_aa, tenant |-> "T1"],
     [mac |-> Mac_BB, tenant |-> "T2"],
     [mac |-> Mac_DD, tenant |-> "TX"] >>

\* Tenant.__init__
Tenant(name, params) ==
  [name |-> name, api_url |-> params.api_url, api_token |-> params.api_token]

\* TenantManager._load: the catalog.
tenants == [n \in DOMAIN CfgTenants |-> Tenant(n, CfgTenants[n])]

\* TenantManager._load: upper-cased MAC -> tenant name; a later terminal with
\* the same MAC replaces an earlier one.
devices_by_mac ==
  LET bound == {i \in DOMAIN CfgTerminals :
                  CfgTerminals[i].mac # <<>> /\ CfgTerminals[i].tenant # ""}
      macs  == {Upper(CfgTerminals[i].mac) : i \in bound}
      last(m) == CHOOSE i \in bound :
                   /\ Upper(CfgTerminals[i].mac) = m
                   /\ \A j \in bound : Upper(CfgTerminals[j].mac) = m => j <= i
  IN  [m \in macs |-> CfgTerminals[last(m)].tenant]

\* TenantManager.get_tenant
get_tenant(name) == IF name \in DOMAIN tenants THEN tenants[name] ELSE None

\* A resolver that falls back to the first tenant of the catalog for a MAC
\* no terminal is bound to.
find_tenant_or_default(mac) ==
  IF mac = Null \/ mac = <<>> THEN None
  ELSE IF Upper(mac) \in DOMAIN devices_by_mac
       THEN get_tenant(devices_by_mac[Upper(mac)])
       ELSE get_tenant("T1")

\* TenantManager.find_tenant_by_mac
find_tenant_by_mac(mac) ==
  IF mac = Null \/ mac = <<>> THEN None
  ELSE IF Upper(mac) \in DOMAIN devices_by_mac
       THEN get_tenant(devices_by_mac[Upper(mac)])
       ELSE None

\* TenantManager.enrich_event
enrich_event(tenant, event) == [event EXCEPT !.tenant = tenant.name]

\* Python's `a or b` on texts: b when a is None or empty.
OrElse(a, b) == IF a = Null \/ a = <<>> THEN b ELSE a

\* TenantManager.send_to_1c: the JSON body posted to the tenant's endpoint.
Payload(event) ==
  [ employee  |-> OrElse(event.employee_number, event.user_id),
    card      |-> event.card_number,
    timestamp |-> event.timestamp,
    direction |-> event.direction,
    success   |-> event.success,
    device    |-> event.device_id,
    raw       |-> OrElse(event.raw_xml, event.raw_binary),
    source    |-> event.event_source ]

\* What one POST can end with: an HTTP status, or 0 for an exception of the
\* client (connection error, timeout).
Statuses == {200, 202, 404, 503, 0}

\* The answers the upstream gives once it has recovered.
Statuses2xx == {200, 202}

\* A sender that takes every HTTP response for a delivery.
DeliveredAnyResponse(status) == status > 0

\* A sender that takes every answer but a server error for a delivery.
DeliveredUnlessServerError(status) == status \in 200..499

\* A sender that reports every attempt as delivered.
DeliveredWhatever(status) == TRUE

\* TenantManager.send_to_1c: the statuses it reports as delivered.
Delivered(status) == status \in {200, 201, 204}

------------------------------------------------------------------------------
\* Pending store, src/storage.py. A file is [name, data, complete, mtime]:
\* name is the uuid in "<uuid>.json", data the dict json.dump was given,
\* complete whether all of it reached the file.

\* EventStorage.__init__: max_days
max_days == 30

\* How save_pending's write can end: written; open() raised (no file); or
\* json.dump raised after the file was created (an incomplete file is left).
SaveOutcomes == {"ok", "open_error", "write_error"}

\* EventStorage.save_pending: the dict with _pending_id and saved_at set.
Stamped(event, event_id, t) == [event EXCEPT !._pending_id = event_id, !.saved_at = t]

\* A save that reports success before the data has reached the file.
save_pending_unflushed(files, event, event_id, t, outcome) ==
  IF outcome = "open_error" THEN files
  ELSE files \cup {[ name     |-> event_id,
                     data     |-> Stamped(event, event_id, t),
                     complete |-> FALSE,
                     mtime    |-> t ]}

\* EventStorage.save_pending: the directory afterwards. open(filename, "w")
\* replaces a file of the same name.
save_pending(files, event, event_id, t, outcome) ==
  IF outcome = "open_error" THEN files
  ELSE {f \in files : f.name # event_id}
       \cup {[ name     |-> event_id,
               data     |-> Stamped(event, event_id, t),
               complete |-> (outcome = "ok"),
               mtime    |-> t ]}

\* sorted(self.dir.glob("*.json")): the file names in ascending order.
RECURSIVE SortedNames(_)
SortedNames(names) ==
  IF names = {} THEN <<>>
  ELSE LET m == CHOOSE x \in names : \A y \in names : x <= y
       IN  <<m>> \o SortedNames(names \ {m})

\* EventStorage.load_all: every file json.load can read, with _file_path
\* set, in the order of the file names; an unreadable file is skipped.
RECURSIVE LoadFiles(_, _)
LoadFiles(files, names) ==
  IF names = <<>> THEN <<>>
  ELSE LET f == CHOOSE x \in files : x.name = Head(names)
       IN  (IF f.complete THEN <<[f.data EXCEPT !._file_path = f.name]>> ELSE <<>>)
           \o LoadFiles(files, Tail(names))

load_all(files) == LoadFiles(files, SortedNames({f.name : f \in files}))

\* The operations of EventStorage whose file access runs inside
\* "async with self.lock": save_pending's write does; load_all's reads and
\* the unlinks of remove and cleanup_old take no lock.
holds_lock(operation) == operation = "save_pending"

\* A remove that finds no usable _file_path in the event and unlinks nothing.
remove_without_path(files, event) == files

\* EventStorage.remove: unlink the file event["_file_path"] names; nothing
\* happens when the key is missing or the file is gone.
remove(files, event) ==
  IF event._file_path = 0 THEN files
  ELSE {f \in files : f.name # event._file_path}

\* EventStorage.cleanup_old: the files it unlinks at time t.
TooOld(files, t) == {f \in files : f.mtime < t - max_days}

cleanup_old(files, t) == files \ TooOld(files, t)

------------------------------------------------------------------------------
\* Inputs.

\* An event dict with none of its keys set.
BlankEvent ==
  [ eid |-> 0, event_source |-> "", client_ip |-> Null, timestamp |-> Null,
    mac_address |-> Null, device_id |-> Null, employee_number |-> Null,
    user_id |-> Null, card_number |-> Null, direction |-> "", success |-> FALSE,
    raw_xml |-> Null, raw_binary |-> Null, door_id |-> -1, reader_id |-> -1,
    tenant |-> "", _pending_id |-> 0, saved_at |-> -1, _file_path |-> 0 ]

\* The MAC addresses webhook events arrive with: bound to T1 (in lower
\* case), bound to T2, bound to a tenant missing from the catalog, unbound,
\* and absent.
MacInputs == {Mac_aa, Mac_BB, Mac_DD, Mac_CC, Null}

\* A parsed webhook event as the ISAPI handler hands it to the processor.
IsapiEvent(mac) ==
  [ BlankEvent EXCEPT !.mac_address = mac, !.device_id = mac,
      !.employee_number = <<69, 49>>, !.card_number = <<49, 50, 51, 52>>,
      !.direction = "IN", !.success = TRUE, !.raw_xml = <<60, 120, 47, 62>> ]

\* Files an earlier run of the bridge has left in the store: records of
\* tenant T1, of tenant T2 (no api_url), of a tenant that has since been
\* taken out of the catalog, and one without tenant.
LeftoverFile(name, tenant) ==
  [ name     |-> name,
    data     |-> Stamped([IsapiEvent(Mac_aa) EXCEPT !.eid = name,
                                                    !.timestamp = IngestionTime,
                                                    !.tenant = tenant],
                         name, 0),
    complete |-> TRUE,
    mtime    |-> 0 ]
LeftoverFiles ==
  { LeftoverFile(1, "T1"), LeftoverFile(2, "GONE"), LeftoverFile(3, "T1"),
    LeftoverFile(4, "T2"), LeftoverFile(5, "") }
LeftoverStores == SUBSET LeftoverFiles

\* A device id as the 16 bytes of a header: ASCII, padded with NULs.
DeviceField(text) == text \o [i \in 1..(16 - Len(text)) |-> 0]

\* An access-event body: verify mode 1, direction 1, user 42, an 8-byte card,
\* 2024-09-12 14:23:10, door 1, reader 1, result 1, one trailing byte.
EventBody ==
  <<1, 0, 1, 1>> \o PackU32(U32(0, 42)) \o <<1, 2, 3, 4, 5, 6, 7, 8>>
  \o <<24, 9, 12, 14, 23, 10>> \o <<1, 1, 1, 0>>

\* A frame as a device sends it: header (marker, version, command, length,
\* device id, sequence number, checksum) and body; the checksum is the CRC
\* of all other bytes when good, and off by one otherwise.
Frame(marker, device, seq, body, good) ==
  LET head == marker \o <<5, 1>> \o PackU16(Len(body)) \o DeviceField(device)
              \o PackU32(seq)
      crc  == crc16(head \o body)
  IN  head \o PackU16(IF good THEN crc ELSE (crc + 1) % 65536) \o body

FrameEvent     == Frame(<<35, 35>>, Mac_aa, U32(0, 1), EventBody, TRUE)
FrameUnbound   == Frame(<<35, 35>>, Mac_CC, U32(65535, 65535), EventBody, TRUE)
FrameHeartbeat == Frame(<<35, 35>>, Mac_aa, U32(0, 256), <<>>, TRUE)
FrameShortBody == Frame(<<35, 35>>, Mac_aa, U32(1, 2), <<1, 0, 1, 1, 0, 42>>, TRUE)
FrameBadCrc    == Frame(<<35, 35>>, Mac_aa, U32(256, 3), EventBody, FALSE)
FrameBadMarker == Frame(<<35, 33>>, Mac_aa, U32(0, 7), EventBody, TRUE)
FrameLong      == Frame(<<35, 35>>, Mac_aa, U32(0, 9), EventBody \o <<0>>, TRUE)

Frames == {FrameEvent, FrameUnbound, FrameHeartbeat, FrameShortBody,
           FrameBadCrc, FrameBadMarker, FrameLong}

------------------------------------------------------------------------------
\* Event processor, src/core/processor.py.

Tasks == {"isapi", "isup"}

\* The parser the processor and the TCP server are given: strict_mode is the
\* constructor's default.
strict_mode == TRUE

\* normalize_ts
normalize_ts(value) == IF value = Null \/ value = <<>> THEN IngestionTime ELSE value

\* EventProcessor._unify_isup_event
unify_isup_event(event, client_ip) ==
  [ BlankEvent EXCEPT
      !.event_source = "ISUP", !.device_id = event.header.device_id,
      !.timestamp = event.timestamp, !.card_number = event.card_number,
      !.employee_number = event.user_id, !.direction = event.direction,
      !.success = (event.verify_result = 1), !.raw_binary = Hex(event.raw_packet),
      !.door_id = event.door_number, !.reader_id = event.reader_number,
      !.client_ip = client_ip ]

IdleTask == [pc |-> "idle", ev |-> None, tenant |-> None, key |-> Null, status |-> -1]

\* The record kept of a call that has returned.
Returned(t, ev, key, tenant, result, status, saved) ==
  [ eid |-> ev.eid, via |-> t, key |-> key,
    tenant |-> IF tenant = None THEN "" ELSE tenant.name,
    result |-> result, status |-> status, saved |-> saved ]

\* process_isapi_event / process_isup_packet from tenant resolution up to
\* the first point the call waits or returns: an unresolved event is
\* dropped; a tenant without api_url makes send_to_1c fail at once and the
\* event is saved; otherwise the POST is under way.
Route(t, event, key, outcome, uuid) ==
  LET tenant == find_tenant_by_mac(key)
  IN  IF tenant = None
      THEN [ task |-> IdleTask, pending |-> pending, metrics |-> metrics,
             nextUuid |-> nextUuid,
             calls |-> calls \cup {Returned(t, event, key, None, FALSE, -1, "none")} ]
      ELSE LET ev == enrich_event(tenant, event)
           IN  IF tenant.api_url = ""
               THEN [ task |-> IdleTask,
                      pending |-> save_pending(pending, ev, uuid, now, outcome),
                      metrics |-> [metrics EXCEPT !.events_failed = @ + 1],
                      nextUuid |-> uuid + 1,
                      calls |-> calls \cup
                        {Returned(t, ev, key, tenant, FALSE, -1, outcome)} ]
               ELSE [ task |-> [pc |-> "sending", ev |-> ev, tenant |-> tenant,
                                key |-> key, status |-> -1],
                      pending |-> pending, metrics |-> metrics,
                      nextUuid |-> nextUuid, calls |-> calls ]

\* The rest of the call once send_to_1c has returned: count the delivery, or
\* save the event and count the failure.
Finish(t, outcome, uuid) ==
  LET c == task[t]
  IN  IF Delivered(c.status)
      THEN [ pending |-> pending,
             metrics |-> [metrics EXCEPT !.events_ok = @ + 1],
             nextUuid |-> nextUuid,
             calls |-> calls \cup
               {Returned(t, c.ev, c.key, c.tenant, TRUE, c.status, "none")} ]
      ELSE [ pending |-> save_pending(pending, c.ev, uuid, now, outcome),
             metrics |-> [metrics EXCEPT !.events_failed = @ + 1],
             nextUuid |-> uuid + 1,
             calls |-> calls \cup
               {Returned(t, c.ev, c.key, c.tenant, FALSE, c.status, outcome)} ]

\* File names made of the clock instead of a uuid: the same name for every
\* file saved at the same time.
ClockNames == {now + 1}

\* The values uuid.uuid4() can return next. Every value it returns is new;
\* the k-th one is named k, so files sort in the order they were saved.
FreshUuids == {nextUuid}

\* process_isup_packet up to the first point it waits or returns: a packet
\* parse() gives no event for returns at once.
IsupCall(packet, client_ip, eid, outcome, uuid) ==
  LET event == parse(packet, strict_mode)
  IN  IF event = None
      THEN [ task |-> IdleTask, pending |-> pending, metrics |-> metrics,
             nextUuid |-> nextUuid, calls |-> calls ]
      ELSE LET unified == [unify_isup_event(event, client_ip) EXCEPT !.eid = eid]
           IN  Route("isup", unified, unified.device_id, outcome, uuid)

\* What the upstream can answer now.
Answers == IF recovered THEN Statuses2xx ELSE Statuses

\* One POST as the upstream sees it.
Request(via, ev, tenant, status) ==
  [ eid |-> ev.eid, via |-> via, url |-> tenant.api_url,
    payload |-> Payload(ev), status |-> status ]

------------------------------------------------------------------------------
\* ISUP TCP session, src/isup/isup_server.py.

\* A server that writes no ACK for a heartbeat.
AckForDataOnly(header) ==
  IF header.data_length = 0 THEN <<>>
  ELSE make_ack(header.sequence_number)

\* A server that answers every frame with a data-carrying ACK.
AckForAlwaysData(header) == make_ack(header.sequence_number)

\* _handle_client: the ACK for a frame with this header.
AckFor(header) ==
  IF header.data_length = 0 THEN make_heartbeat_ack
  ELSE make_ack(header.sequence_number)

\* _handle_client: write the ACK and go on to the next header.
WriteAck(c) ==
  LET ack == AckFor(c.header)
  IN  [c EXCEPT !.acks = IF ack # <<>> THEN Append(@, ack) ELSE @,
                !.pc = "READ_HEADER"]

\* The connection before it is accepted. header_bytes and header are the
\* locals of _handle_client, rx what the peer sent last; frames (the headers
\* accepted so far) and acks (what was written to the peer) are history.
NoConn ==
  [ pc |-> "NONE", header_bytes |-> <<>>, header |-> None, rx |-> <<>>,
    frames |-> <<>>, acks |-> <<>> ]

------------------------------------------------------------------------------
\* Retry loop, EventProcessor.retry_pending_events.

\* A processor that ends the pass at a record whose tenant is missing.
RECURSIVE RetrySkipStops(_, _)
RetrySkipStops(batch, m) ==
  IF batch = <<>> THEN [batch |-> <<>>, metrics |-> m]
  ELSE LET tenant == get_tenant(Head(batch).tenant)
       IN  IF tenant = None THEN [batch |-> <<>>, metrics |-> m]
           ELSE IF tenant.api_url = ""
                THEN RetrySkipStops(Tail(batch),
                                    [m EXCEPT !.events_retried_fail = @ + 1])
                ELSE [batch |-> batch, metrics |-> m]

\* The for loop from its current record up to the next POST: a record whose
\* tenant is not in the catalog is skipped, one whose tenant has no api_url
\* fails without a request.
RECURSIVE RetrySkip(_, _)
RetrySkip(batch, m) ==
  IF batch = <<>> THEN [batch |-> <<>>, metrics |-> m]
  ELSE LET tenant == get_tenant(Head(batch).tenant)
       IN  IF tenant = None THEN RetrySkip(Tail(batch), m)
           ELSE IF tenant.api_url = ""
                THEN RetrySkip(Tail(batch),
                               [m EXCEPT !.events_retried_fail = @ + 1])
                ELSE [batch |-> batch, metrics |-> m]

\* A loop that returns when the records of a pass are used up.
RetryAtReturns(r, old) ==
  [old EXCEPT !.pc = IF r.batch = <<>> THEN "returned" ELSE "sending",
              !.batch = r.batch, !.status = -1]

\* The loop's state after the synchronous run r = RetrySkip(..).
RetryAt(r, old) ==
  [old EXCEPT !.pc = IF r.batch = <<>> THEN "sleep" ELSE "sending",
              !.batch = r.batch, !.status = -1]

------------------------------------------------------------------------------
\* The codec used on its own.

\* The 16-bit halves the sequence numbers are made of.
SeqHalves == {0, 1, 255, 256, 32768, 65535}

\* The sequence numbers an ACK is built for.
SeqInputs == {U32(h, l) : h \in SeqHalves, l \in SeqHalves}

\* No use of the codec on its own.
NoCodec ==
  [ pc |-> "none", seq |-> U32(0, 0), ack |-> <<>>, parsed |-> None,
    body |-> <<>>, frame |-> <<>> ]

\* The longest body of the frames the parser is tried on.
MaxBodyLen == 27

\* The first n bytes of an access-event body with the given direction code
\* and verify result, followed by padding.
EventBodyOf(n, direction, result) ==
  SubSeq(<<1, 0, 1, direction>> \o PackU32(U32(0, 42))
         \o <<1, 2, 3, 4, 5, 6, 7, 8>> \o <<24, 9, 12, 14, 23, 10>>
         \o <<1, 1, result>> \o [k \in 1..MaxBodyLen |-> 0],
         1, n)

------------------------------------------------------------------------------
\* ISAPI webhook, src/isapi/isapi_server.py and src/isapi/isapi_client.py.

\* F of the value of v, with v computed once however often F uses it.
At(v, F(_)) == CHOOSE r \in {F(x) : x \in {v}} : TRUE

\* The bytes bytes.strip() and str.strip() remove: space, \t \n \v \f \r.
IsWs(c) == c \in {9, 10, 11, 12, 13, 32}

RECURSIVE LStrip(_)
LStrip(s) == IF s # <<>> /\ IsWs(Head(s)) THEN LStrip(Tail(s)) ELSE s

RECURSIVE RStrip(_)
RStrip(s) ==
  IF s # <<>> /\ IsWs(s[Len(s)]) THEN RStrip(SubSeq(s, 1, Len(s) - 1)) ELSE s

\* s.strip()
Strip(s) == RStrip(LStrip(s))

\* s.strip('"')
RECURSIVE StripQuotes(_)
StripQuotes(s) ==
  IF s # <<>> /\ Head(s) = 34 THEN StripQuotes(Tail(s))
  ELSE IF s # <<>> /\ s[Len(s)] = 34 THEN StripQuotes(SubSeq(s, 1, Len(s) - 1))
  ELSE s

\* str.lower() on ASCII text.
Lower(s) == [i \in 1..Len(s) |-> IF s[i] >= 65 /\ s[i] <= 90 THEN s[i] + 32 ELSE s[i]]

\* s.startswith(p), s.endswith(p)
StartsWith(s, p) == Len(p) <= Len(s) /\ SubSeq(s, 1, Len(p)) = p
EndsWith(s, p) == Len(p) <= Len(s) /\ SubSeq(s, Len(s) - Len(p) + 1, Len(s)) = p

\* s.find(sub, start): the index (from 0) of the first occurrence of sub at
\* or after start, -1 when there is none.
Find(s, sub, start) ==
  LET hits == {i \in start..(Len(s) - Len(sub)) : SubSeq(s, i + 1, i + Len(sub)) = sub}
  IN  IF hits = {} THEN -1 ELSE CHOOSE i \in hits : \A j \in hits : i <= j

\* sub in s
Contains(s, sub) == Find(s, sub, 0) # -1

\* s[a:] of Python.
From(s, a) == Slice(s, a, Len(s))

\* s.split(delim) for a non-empty delim.
RECURSIVE Split(_, _)
Split(s, delim) ==
  At(Find(s, delim, 0), LAMBDA i :
       IF i = -1 THEN <<s>>
       ELSE <<Slice(s, 0, i)>> \o Split(From(s, i + Len(delim)), delim))

\* s.split(delim, 1)
Split1(s, delim) ==
  At(Find(s, delim, 0), LAMBDA i :
       IF i = -1 THEN <<s>> ELSE <<Slice(s, 0, i), From(s, i + Len(delim))>>)

\* bytes.decode("utf-8", errors="replace") on bytes that are ASCII or no part
\* of a valid multi-byte sequence: such a byte becomes U+FFFD.
Decode(b) == [i \in 1..Len(b) |-> IF b[i] < 128 THEN b[i] ELSE 65533]

\* dict.get(key) on a dict kept as the sequence of its <<key, value>>
\* assignments: the last value assigned to key, Null when there is none.
RECURSIVE Get(_, _)
Get(items, key) ==
  IF items = <<>> THEN Null
  ELSE IF items[Len(items)][1] = key THEN items[Len(items)][2]
  ELSE Get(SubSeq(items, 1, Len(items) - 1), key)

\* The k=v items of the parts of a header value, keys in lower case, values
\* without their quotes.
RECURSIVE HeaderParams(_)
HeaderParams(parts) ==
  IF parts = <<>> THEN <<>>
  ELSE LET kv == Split1(Head(parts), <<61>> (* = *))
       IN  (IF Len(kv) = 2
            THEN << <<Lower(Strip(kv[1])), StripQuotes(Strip(kv[2]))>> >>
            ELSE <<>>) \o HeaderParams(Tail(parts))

\* [p.strip() for p in value.split(";") if p.strip()]
HeaderParts(value) ==
  LET RECURSIVE Stripped(_)
      Stripped(ps) ==
        IF ps = <<>> THEN <<>>
        ELSE (IF Strip(Head(ps)) = <<>> THEN <<>> ELSE <<Strip(Head(ps))>>)
             \o Stripped(Tail(ps))
  IN  At(Split(value, <<59>> (* ; *)), LAMBDA ps : Stripped(ps))

\* _parse_content_type_header
parse_content_type_header(value) ==
  IF value = <<>> THEN [mime |-> <<>>, params |-> <<>>]
  ELSE At(HeaderParts(value), LAMBDA parts :
            [ mime   |-> IF parts = <<>> THEN <<>> ELSE Lower(Head(parts)),
              params |-> IF parts = <<>> THEN <<>> ELSE HeaderParams(Tail(parts)) ])

\* _parse_content_disposition
parse_content_disposition(value) ==
  IF value = <<>> THEN <<>>
  ELSE At(HeaderParts(value), LAMBDA parts :
            IF parts = <<>> THEN <<>> ELSE HeaderParams(Tail(parts)))

\* _strip_leading_noise: the control bytes 0..15 and spaces in front are
\* dropped, then a byte order mark and the white space after it.
RECURSIVE LStripNoise(_)
LStripNoise(s) ==
  IF s # <<>> /\ (Head(s) <= 15 \/ Head(s) = 32) THEN LStripNoise(Tail(s)) ELSE s

strip_leading_noise(data) ==
  LET s == LStripNoise(data)
  IN  IF StartsWith(s, <<239, 187, 191>>) THEN LStrip(From(s, 3)) ELSE s

\* _looks_like_xml
looks_like_xml(data) ==
  At(strip_leading_noise(data), LAMBDA s :
      /\ s # <<>>
      /\ \/ StartsWith(s, <<60, 63, 120, 109, 108>> (* <?xml *))
         \/ StartsWith(s, <<60, 69, 118, 101, 110, 116, 78, 111, 116, 105, 102, 105, 99, 97, 116, 105, 111, 110, 65, 108, 101, 114, 116>> (* <EventNotificationAlert *))
         \/ Contains(Slice(s, 0, 8192), <<60, 69, 118, 101, 110, 116, 78, 111, 116, 105, 102, 105, 99, 97, 116, 105, 111, 110, 65, 108, 101, 114, 116>> (* <EventNotificationAlert *))
         \/ (StartsWith(s, <<60>> (* < *)) /\ Contains(Slice(s, 0, 8192), <<60, 47>> (* </ *))))

\* _guess_filename
guess_filename(cd_params, fallback) ==
  IF OrElse(Get(cd_params, <<102, 105, 108, 101, 110, 97, 109, 101>> (* filename *)), <<>>) # <<>> THEN Get(cd_params, <<102, 105, 108, 101, 110, 97, 109, 101>> (* filename *))
  ELSE IF OrElse(Get(cd_params, <<110, 97, 109, 101>> (* name *)), <<>>) # <<>> THEN Get(cd_params, <<110, 97, 109, 101>> (* name *))
  ELSE fallback

\* The header lines of one part as a dict: the lines with a colon, keys in
\* lower case.
RECURSIVE PartHeaders(_)
PartHeaders(lines) ==
  IF lines = <<>> THEN <<>>
  ELSE LET kv == Split1(Head(lines), <<58>> (* : *))
       IN  (IF Len(kv) = 2 THEN << <<Lower(Strip(kv[1])), Strip(kv[2])>> >> ELSE <<>>)
           \o PartHeaders(Tail(lines))

\* header_blob.replace("\r\n", "\n")
CrlfToLf(s) ==
  LET kept == SelectSeq([i \in 1..Len(s) |-> i],
                        LAMBDA i : ~(s[i] = 13 /\ i < Len(s) /\ s[i + 1] = 10))
  IN  [k \in 1..Len(kept) |-> s[kept[k]]]

\* The body of the loop of _robust_parse_multipart_formdata: the part a chunk
\* holds, as a sequence of no or one part.
ChunkPart(chunk0) ==
  IF chunk0 = <<>> \/ StartsWith(chunk0, <<45, 45>> (* -- *)) THEN <<>>
  ELSE At(IF StartsWith(chunk0, <<13, 10>>) THEN From(chunk0, 2)
          ELSE IF StartsWith(chunk0, <<10>>) THEN From(chunk0, 1)
          ELSE chunk0,
          LAMBDA chunk :
            LET crlf == Find(chunk, <<13, 10, 13, 10>>, 0)
                lf   == Find(chunk, <<10, 10>>, 0)
                header_end == IF crlf # -1 THEN crlf ELSE lf
                sep_len    == IF crlf # -1 THEN 4 ELSE 2
            IN  IF header_end = -1 THEN <<>>
                ELSE LET header_blob == Decode(Slice(chunk, 0, header_end))
                         payload0    == From(chunk, header_end + sep_len)
                         payload     ==
                           IF EndsWith(payload0, <<13, 10>>)
                           THEN Slice(payload0, 0, Len(payload0) - 2)
                           ELSE IF EndsWith(payload0, <<10>>)
                           THEN Slice(payload0, 0, Len(payload0) - 1)
                           ELSE payload0
                     IN  << [ headers |-> PartHeaders(Split(CrlfToLf(header_blob), <<10>>)),
                              payload |-> payload ] >>)

\* _robust_parse_multipart_formdata: the parts with a payload that is not
\* blank.
robust_parse_multipart_formdata(body, boundary) ==
  IF boundary = <<>> \/ body = <<>> THEN <<>>
  ELSE LET RECURSIVE Parts(_)
           Parts(chunks) ==
             IF chunks = <<>> THEN <<>>
             ELSE ChunkPart(Head(chunks)) \o Parts(Tail(chunks))
       IN  At(Split(body, <<45, 45>> (* -- *) \o boundary), LAMBDA chunks :
                SelectSeq(Parts(chunks), LAMBDA p : Strip(p.payload) # <<>>))

\* _extract_xml_from_raw_body: the text from <EventNotificationAlert to the
\* closing tag, Null when the body holds none.
extract_xml_from_raw_body(body) ==
  IF body = <<>> THEN Null
  ELSE At(SelectSeq(body, LAMBDA x : x # 0), LAMBDA scan :
            LET start == Find(scan, <<60, 69, 118, 101, 110, 116, 78, 111, 116, 105, 102, 105, 99, 97, 116, 105, 111, 110, 65, 108, 101, 114, 116>> (* <EventNotificationAlert *), 0)
                end   == IF start = -1 THEN -1
                         ELSE Find(scan, <<60, 47, 69, 118, 101, 110, 116, 78, 111, 116, 105, 102, 105, 99, 97, 116, 105, 111, 110, 65, 108, 101, 114, 116, 62>> (* </EventNotificationAlert> *), start)
            IN  IF start = -1 \/ end = -1 THEN Null
                ELSE Decode(Slice(scan, start, end + 25)))

\* _LastEventCache: ttl_seconds of the handler's constructor.
cache_ttl_seconds == 30

\* _LastEventCache.set: the cache is kept as the set of its items, one per
\* address.
cache_set(items, client_ip, xml, time) ==
  {i \in items : i.ip # client_ip} \cup {[ip |-> client_ip, xml |-> xml, ts |-> time]}

\* _LastEventCache.get: the XML kept for the address, Null when there is
\* none or it is older than the TTL; an entry found too old is dropped.
cache_get(items, client_ip, time) ==
  LET found == {i \in items : i.ip = client_ip}
  IN  IF found = {} THEN [xml |-> Null, items |-> items]
      ELSE LET item == CHOOSE i \in found : TRUE
           IN  IF time - item.ts > cache_ttl_seconds
               THEN [xml |-> Null, items |-> items \ found]
               ELSE [xml |-> item.xml, items |-> items]

\* The text used where an address or a device name is missing.
Unknown == <<117, 110, 107, 110, 111, 119, 110>> (* unknown *)

\* The characters an element name is made of.
IsNameChar(c) ==
  \/ c >= 97 /\ c <= 122
  \/ c >= 65 /\ c <= 90
  \/ c >= 48 /\ c <= 57
  \/ c \in {45, 46, 58, 95}

\* ET.fromstring accepts the text: one root element, every tag closed by
\* its own end tag in order, nothing but white space outside the root, no
\* control characters. Declarations, comments, CDATA sections, attributes
\* and entities are not modelled; the documents of the model carry none.
RECURSIVE WellFormed(_, _, _, _)
WellFormed(s, i, stack, roots) ==
  IF i >= Len(s) THEN stack = <<>> /\ roots = 1
  ELSE IF s[i + 1] = 60
  THEN At(Find(s, <<62>> (* > *), i + 1), LAMBDA j :
         LET tag == Slice(s, i + 1, j)
         IN  IF j = -1 \/ tag = <<>> THEN FALSE
             ELSE IF Head(tag) = 47
             THEN /\ stack # <<>>
                  /\ stack[Len(stack)] = Tail(tag)
                  /\ At(SubSeq(stack, 1, Len(stack) - 1), LAMBDA popped :
                          WellFormed(s, j + 1, popped, roots))
             ELSE LET empty == tag[Len(tag)] = 47
                      name  == IF empty THEN Slice(tag, 0, Len(tag) - 1) ELSE tag
                  IN  /\ name # <<>>
                      /\ \A k \in 1..Len(name) : IsNameChar(name[k])
                      /\ ~(name[1] >= 48 /\ name[1] <= 57)
                      /\ (stack = <<>> => roots = 0)
                      /\ At(IF empty THEN stack ELSE Append(stack, name), LAMBDA pushed :
                              WellFormed(s, j + 1, pushed,
                                         IF stack = <<>> THEN roots + 1 ELSE roots)))
  ELSE At(Find(s, <<60>> (* < *), i), LAMBDA lt :
         LET stop == IF lt = -1 THEN Len(s) ELSE lt
         IN  /\ \A k \in (i + 1)..stop :
                  /\ stack = <<>> => IsWs(s[k])
                  /\ s[k] >= 32 \/ s[k] \in {9, 10, 13}
                  /\ s[k] # 65533
             /\ WellFormed(s, stop, stack, roots))

\* Element.findtext(name): the text of the first element of that name, Null
\* when there is none. (The depth of the element is not tracked: in the
\* documents of the model a name occurs at one depth only.)
findtext(xml, name) ==
  LET open  == <<60>> (* < *) \o name \o <<62>> (* > *)
      a     == Find(xml, open, 0)
      b     == IF a = -1 THEN -1 ELSE Find(xml, <<60, 47>> (* </ *) \o name \o <<62>> (* > *), a)
  IN  IF a = -1 \/ b = -1 THEN Null ELSE Slice(xml, a + Len(open), b)

\* int(reader_id) succeeds: decimal digits (signs and blanks not modelled).
IsInt(s) == s # <<>> /\ \A k \in 1..Len(s) : s[k] >= 48 /\ s[k] <= 57

\* ISAPIEventParser.parse without the images: the fields of the ISAPIEvent
\* read from the XML, None when fromstring raises.
parse_fields(text) ==
  At(text, LAMBDA xml_text :
    IF ~WellFormed(xml_text, 0, <<>>, 0) THEN None
    ELSE LET mac_address == findtext(xml_text, <<109, 97, 99, 65, 100, 100, 114, 101, 115, 115>> (* macAddress *))
             device_id   == findtext(xml_text, <<100, 101, 118, 105, 99, 101, 73, 68>> (* deviceID *))
             reader_id   == findtext(xml_text, <<114, 101, 97, 100, 101, 114, 73, 68>> (* readerID *))
             access      == Contains(xml_text, <<60, 65, 99, 99, 101, 115, 115, 67, 111, 110, 116, 114, 111, 108, 108, 101, 114, 69, 118, 101, 110, 116, 62>> (* <AccessControllerEvent> *))
         IN  [ none |-> FALSE,
               device_id |-> OrElse(mac_address, OrElse(device_id, Unknown)),
               mac_address |-> mac_address,
               timestamp |-> OrElse(findtext(xml_text, <<100, 97, 116, 101, 84, 105, 109, 101>> (* dateTime *)), IngestionTime),
               card_number |-> IF access THEN findtext(xml_text, <<99, 97, 114, 100, 78, 111>> (* cardNo *)) ELSE Null,
               employee_number |-> IF access THEN findtext(xml_text, <<101, 109, 112, 108, 111, 121, 101, 101, 78, 111>> (* employeeNo *)) ELSE Null,
               direction |-> IF access /\ reader_id # Null /\ IsInt(reader_id)
                             THEN (IF reader_id[Len(reader_id)] % 2 = 1 THEN "IN" ELSE "OUT")
                             ELSE "UNKNOWN",
               success |-> access /\ findtext(xml_text, <<109, 105, 110, 111, 114, 69, 118, 101, 110, 116, 84, 121, 112, 101>> (* minorEventType *)) = <<49>> (* 1 *),
               image_ids |-> {},
               raw_xml |-> xml_text ])

\* ISAPIEvent.to_dict: the keys of the dict it returns.
to_dict_keys ==
  { "event_type", "device_id", "timestamp", "card", "employee", "door_id",
    "reader_id", "direction", "success" }

\* The value the processor reads from the dict under a key of the event:
\* dict.get(key), Null when to_dict leaves the key out.
dict_get(event, key, value) == IF key \in to_dict_keys THEN value ELSE Null

\* ISAPIEvent.to_dict: the dict handed to the processor. It has no
\* mac_address key (the processor's event.get("mac_address") is None) and
\* no raw_xml or image_ids; the card and the employee are under the keys
\* "card" and "employee", which the processor and the sender do not read.
to_dict(event) ==
  [ BlankEvent EXCEPT !.device_id = event.device_id,
      !.timestamp = event.timestamp, !.direction = event.direction,
      !.success = event.success ]

\* What one run of the handler comes to: the response, the correlation
\* cache after it, and the XML and images handed to _process_event (xml is
\* Null when the handler answers without it).
Handled(status, reply, cache, xml, images) ==
  [status |-> status, reply |-> reply, cache |-> cache, xml |-> xml, images |-> images]

\* What the handler finds in a request before it looks at the cache:
\* nothing to act on ("heartbeat"), a body it does not take
\* ("unsupported"), XML that is the body or was scanned out of it ("xml"),
\* XML among the parts of a multipart body, with the images beside it
\* ("part_xml"), or images and no XML ("images").
Content(kind, xml, images) == [kind |-> kind, xml |-> xml, images |-> images]

\* The loop of _handle_multipart_bytes over the parts: the XML of the last
\* part taken for XML and the images by file name.
RECURSIVE SortParts(_, _, _)
SortParts(parts, xml_data, images) ==
  IF parts = <<>> THEN [xml_data |-> xml_data, images |-> images]
  ELSE LET headers   == Head(parts).headers
           payload   == Head(parts).payload
           ct        == Lower(OrElse(Get(headers, <<99, 111, 110, 116, 101, 110, 116, 45, 116, 121, 112, 101>> (* content-type *)), <<>>))
           cd        == OrElse(Get(headers, <<99, 111, 110, 116, 101, 110, 116, 45, 100, 105, 115, 112, 111, 115, 105, 116, 105, 111, 110>> (* content-disposition *)), <<>>)
           cd_params == parse_content_disposition(cd)
           part_name == Lower(OrElse(Get(cd_params, <<110, 97, 109, 101>> (* name *)), <<>>))
           filename  == guess_filename(cd_params, <<98, 108, 111, 98, 46, 98, 105, 110>> (* blob.bin *))
           full      == Strip(payload) # <<>>
           hinted    == \E x \in {<<101, 118, 101, 110, 116>> (* event *), <<110, 111, 116, 105, 102, 105, 99, 97, 116, 105, 111, 110>> (* notification *), <<97, 108, 101, 114, 116>> (* alert *), <<109, 101, 116, 97, 100, 97, 116, 97>> (* metadata *), <<120, 109, 108>> (* xml *)} :
                          Contains(part_name, x)
           is_xml    == \/ full /\ Contains(ct, <<120, 109, 108>> (* xml *))
                        \/ full /\ hinted /\ looks_like_xml(payload)
                        \/ full /\ looks_like_xml(payload)
           is_image  == /\ full
                        /\ \/ StartsWith(ct, <<105, 109, 97, 103, 101, 47>> (* image/ *))
                           \/ \E e \in {<<46, 106, 112, 103>> (* .jpg *), <<46, 106, 112, 101, 103>> (* .jpeg *), <<46, 112, 110, 103>> (* .png *), <<46, 98, 109, 112>> (* .bmp *)} :
                                EndsWith(Lower(filename), e)
       IN  IF is_xml THEN SortParts(Tail(parts), Decode(payload), images)
           ELSE IF is_image
           THEN SortParts(Tail(parts), xml_data,
                          {i \in images : i[1] # filename} \cup {<<filename, payload>>})
           ELSE SortParts(Tail(parts), xml_data, images)

\* No images: the empty dict (kept as the set of its <<file name, payload>>
\* items), and the None _process_event is given for it.
NoImages == {}

\* ISAPIWebhookHandler._handle_multipart_bytes up to its use of the
\* cache: what the multipart body holds.
multipart_content(body, boundary) ==
  IF boundary = <<>>
  THEN At(IF looks_like_xml(body) THEN extract_xml_from_raw_body(body) ELSE Null,
          LAMBDA xml_fallback :
            IF OrElse(xml_fallback, <<>>) # <<>>
            THEN Content("xml", xml_fallback, NoImages)
            ELSE Content("heartbeat", Null, NoImages))
  ELSE At(robust_parse_multipart_formdata(body, boundary), LAMBDA parts :
         IF parts = <<>> THEN Content("heartbeat", Null, NoImages)
         ELSE At(SortParts(parts, Null, NoImages), LAMBDA sorted :
                At(IF OrElse(sorted.xml_data, <<>>) = <<>>
                   THEN extract_xml_from_raw_body(body)
                   ELSE sorted.xml_data,
                   LAMBDA xml_data :
                     IF OrElse(xml_data, <<>>) # <<>>
                     THEN Content("part_xml", xml_data, sorted.images)
                     ELSE IF sorted.images # NoImages
                     THEN Content("images", Null, sorted.images)
                     ELSE Content("heartbeat", Null, NoImages))))

\* A gate that lets a request without the header through.
authorized_unless_present(secret_token, header) ==
  secret_token = Null \/ secret_token = <<>> \/ header = Null \/ header = secret_token

\* The shared-secret gate of handle: open when no secret is configured,
\* else the X-Webhook-Secret header has to equal the secret.
authorized(secret_token, header) ==
  secret_token = Null \/ secret_token = <<>> \/ header = secret_token

\* A body test that takes only the empty body for a heartbeat.
blank_if_empty(body) == body = <<>>

\* not body or not body.strip()
blank(body) == body = <<>> \/ Strip(body) = <<>>

\* The requests of the model.
Boundary == <<66>> (* B *)
ContentTypeMultipart == <<109, 117, 108, 116, 105, 112, 97, 114, 116, 47, 102, 111, 114, 109, 45, 100, 97, 116, 97, 59, 32, 98, 111, 117, 110, 100, 97, 114, 121, 61, 66>> (* multipart/form-data; boundary=B *)
ContentTypeNoBoundary == <<109, 117, 108, 116, 105, 112, 97, 114, 116, 47, 102, 111, 114, 109, 45, 100, 97, 116, 97>> (* multipart/form-data *)
ContentTypeXml == <<97, 112, 112, 108, 105, 99, 97, 116, 105, 111, 110, 47, 120, 109, 108>> (* application/xml *)
ContentTypePlain == <<116, 101, 120, 116, 47, 112, 108, 97, 105, 110>> (* text/plain *)

\* A well-formed notification, one whose macAddress is never closed, and a
\* well-formed document of one empty element.
XmlGood == <<60, 69, 118, 101, 110, 116, 78, 111, 116, 105, 102, 105, 99, 97, 116, 105, 111, 110, 65, 108, 101, 114, 116, 62, 60, 109, 97, 99, 65, 100, 100, 114, 101, 115, 115, 62, 97, 97, 60, 47, 109, 97, 99, 65, 100, 100, 114, 101, 115, 115, 62, 60, 47, 69, 118, 101, 110, 116, 78, 111, 116, 105, 102, 105, 99, 97, 116, 105, 111, 110, 65, 108, 101, 114, 116, 62>> (* <EventNotificationAlert><macAddress>aa</macAddress></EventNotificationAlert> *)
XmlBad == <<60, 69, 118, 101, 110, 116, 78, 111, 116, 105, 102, 105, 99, 97, 116, 105, 111, 110, 65, 108, 101, 114, 116, 62, 60, 109, 97, 99, 65, 100, 100, 114, 101, 115, 115, 62, 97, 97, 60, 47, 69, 118, 101, 110, 116, 78, 111, 116, 105, 102, 105, 99, 97, 116, 105, 111, 110, 65, 108, 101, 114, 116, 62>> (* <EventNotificationAlert><macAddress>aa</EventNotificationAlert> *)
XmlEmptyElement == <<60, 97, 47, 62>> (* <a/> *)
Jpeg == <<255, 216, 255, 217>>

\* One part of a multipart body and the closing marker.
Part(headers, payload) ==
  <<45, 45>> (* -- *) \o Boundary \o <<13, 10>> \o headers \o <<13, 10, 13, 10>> \o payload \o <<13, 10>>
Closing == <<45, 45>> (* -- *) \o Boundary \o <<45, 45>> (* -- *) \o <<13, 10>>

BodyBoundaryOnly == <<45, 45>> (* -- *) \o Boundary \o <<13, 10>> \o Closing
BodyEmptyPart == Part(<<67, 111, 110, 116, 101, 110, 116, 45, 84, 121, 112, 101, 58, 32, 97, 112, 112, 108, 105, 99, 97, 116, 105, 111, 110, 47, 120, 109, 108>> (* Content-Type: application/xml *), <<>>) \o Closing
BodyXmlPart == Part(<<67, 111, 110, 116, 101, 110, 116, 45, 68, 105, 115, 112, 111, 115, 105, 116, 105, 111, 110, 58, 32, 102, 111, 114, 109, 45, 100, 97, 116, 97, 59, 32, 110, 97, 109, 101, 61, 34, 69, 118, 101, 110, 116, 78, 111, 116, 105, 102, 105, 99, 97, 116, 105, 111, 110, 65, 108, 101, 114, 116, 34>> (* Content-Disposition: form-data; name="EventNotificationAlert" *), XmlGood) \o Closing
BodyBadXmlPart == Part(<<67, 111, 110, 116, 101, 110, 116, 45, 84, 121, 112, 101, 58, 32, 97, 112, 112, 108, 105, 99, 97, 116, 105, 111, 110, 47, 120, 109, 108>> (* Content-Type: application/xml *), XmlBad) \o Closing
BodyImagePart ==
  Part(<<67, 111, 110, 116, 101, 110, 116, 45, 68, 105, 115, 112, 111, 115, 105, 116, 105, 111, 110, 58, 32, 102, 111, 114, 109, 45, 100, 97, 116, 97, 59, 32, 110, 97, 109, 101, 61, 34, 80, 105, 99, 116, 117, 114, 101, 34, 59, 32, 102, 105, 108, 101, 110, 97, 109, 101, 61, 34, 112, 46, 106, 112, 103, 34>> (* Content-Disposition: form-data; name="Picture"; filename="p.jpg" *) \o <<13, 10>>
       \o <<67, 111, 110, 116, 101, 110, 116, 45, 84, 121, 112, 101, 58, 32, 105, 109, 97, 103, 101, 47, 106, 112, 101, 103>> (* Content-Type: image/jpeg *), Jpeg) \o Closing

\* Content type and body of the requests: heartbeats (empty, blank,
\* boundary markers only, a part without payload), notifications as plain
\* XML and as a multipart part (well-formed and not), an image on its own,
\* and bodies sent as text/plain.
Kinds ==
  { <<Null, <<>>>>, <<Null, <<32, 13, 10>>>>, <<ContentTypeXml, <<32, 13, 10>>>>,
    <<ContentTypeMultipart, <<13, 10>>>>,
    <<ContentTypeMultipart, BodyBoundaryOnly>>,
    <<ContentTypeMultipart, Closing>>,
    <<ContentTypeNoBoundary, BodyBoundaryOnly>>,
    <<ContentTypeMultipart, BodyEmptyPart>>,
    <<ContentTypeXml, XmlGood>>, <<ContentTypeXml, XmlBad>>,
    <<ContentTypeMultipart, BodyXmlPart>>,
    <<ContentTypeMultipart, BodyBadXmlPart>>,
    <<ContentTypeMultipart, BodyImagePart>>,
    <<ContentTypePlain, <<104, 101, 108, 108, 111>> (* hello *)>>, <<ContentTypePlain, XmlEmptyElement>> }

\* The configured secret and the values of X-Webhook-Secret (Null: no such
\* header).
Secret == <<115>> (* s *)
SecretHeaders == {Null, Secret, <<120>> (* x *)}

WebRequest(remote, secret, kind) ==
  [remote |-> remote, secret |-> secret, content_type |-> kind[1], body |-> kind[2]]

\* Every kind from the first address with every header value; from the
\* second address the image on its own.
Requests ==
  {WebRequest(<<49>> (* 1 *), h, k) : h \in SecretHeaders, k \in Kinds}
  \cup {WebRequest(<<50>> (* 2 *), h, <<ContentTypeMultipart, BodyImagePart>>) : h \in SecretHeaders}

\* ISAPIWebhookHandler.handle from the read of the body up to its use of
\* the cache: what the request holds.
request_content(request) ==
  At(parse_content_type_header(OrElse(request.content_type, <<>>)), LAMBDA ctype :
    LET body == request.body
    IN  IF blank(body) THEN Content("heartbeat", Null, NoImages)
        ELSE IF StartsWith(ctype.mime, <<109, 117, 108, 116, 105, 112, 97, 114, 116, 47>> (* multipart/ *))
        THEN At(OrElse(Get(ctype.params, <<98, 111, 117, 110, 100, 97, 114, 121>> (* boundary *)), <<>>),
                LAMBDA boundary : multipart_content(body, boundary))
        ELSE IF Contains(ctype.mime, <<120, 109, 108>> (* xml *)) \/ looks_like_xml(body)
        THEN At(Strip(Decode(body)), LAMBDA xml_text :
                  IF xml_text = <<>> THEN Content("heartbeat", Null, NoImages)
                  ELSE Content("xml", xml_text, NoImages))
        ELSE Content("unsupported", Null, NoImages))

\* request_content of every request of the model.
Contents == [request \in Requests |-> request_content(request)]

\* The XML texts the handler can come to parse, and parse_fields of each.
Documents == {Contents[request].xml : request \in Requests} \ {Null}
Parsed == [xml_text \in Documents |-> parse_fields(xml_text)]

\* ISAPIEventParser.parse: the ISAPIEvent of the XML with the names of the
\* images, None when fromstring raises.
xml_parse(xml_text, images) ==
  At(Parsed[xml_text], LAMBDA fields :
       IF fields = None THEN None
       ELSE [fields EXCEPT !.image_ids = {i[1] : i \in images}])

\* ISAPIWebhookHandler.handle and _handle_multipart_bytes up to the call of
\* _process_event: the secret gate, then the answer to what the request
\* holds; XML found among the parts is cached first, images without XML
\* are joined with the XML cached for the address.
handle(request, secret_token, cache, time) ==
  IF ~authorized(secret_token, request.secret)
  THEN Handled(401, "unauthorized", cache, Null, NoImages)
  ELSE At(Contents[request], LAMBDA content :
         LET client_ip == OrElse(request.remote, Unknown)
         IN  IF content.kind = "heartbeat"
             THEN Handled(200, "OK", cache, Null, NoImages)
             ELSE IF content.kind = "unsupported"
             THEN Handled(400, "unsupported content type", cache, Null, NoImages)
             ELSE IF content.kind = "xml"
             THEN Handled(0, "", cache, content.xml, NoImages)
             ELSE IF content.kind = "part_xml"
             THEN Handled(0, "", cache_set(cache, client_ip, content.xml, time),
                          content.xml, content.images)
             ELSE LET last == cache_get(cache, client_ip, time)
                  IN  IF OrElse(last.xml, <<>>) # <<>>
                      THEN Handled(0, "", last.items, last.xml, content.images)
                      ELSE Handled(200, "OK", last.items, Null, NoImages))

\* The secrets a handler is constructed with: none, or one.
SecretTokens == {Null, Secret}

\* The clock of the webhook goes in steps of this many seconds.
TickSeconds == 20

\* No request handled yet.
NoWeb(secret_token) ==
  [secret_token |-> secret_token, cache |-> {}, time |-> 0, served |-> 0,
   request |-> None, status |-> 0, reply |-> "", dispatched |-> FALSE,
   event |-> None, images |-> Null]

------------------------------------------------------------------------------
\* ISAPI device client with Digest authentication, src/isapi/isapi_client.py.

\* \w of the re module on ASCII text.
IsWord(c) ==
  \/ c >= 48 /\ c <= 57
  \/ c >= 65 /\ c <= 90
  \/ c >= 97 /\ c <= 122
  \/ c = 95

\* The position after the run of \w that starts at position p.
WordEnd(s, p) ==
  CHOOSE q \in p..(Len(s) + 1) :
    /\ q > Len(s) \/ ~IsWord(s[q])
    /\ \A k \in p..(q - 1) : IsWord(s[k])

\* The position after the value ".*?" or [^,]+ that starts at position v, 0
\* when neither matches there.
ValueEnd(s, v) ==
  LET closing == {q \in (v + 1)..Len(s) :
                    s[q] = 34 /\ \A k \in (v + 1)..(q - 1) : s[k] # 10}
  IN  IF v > Len(s) THEN 0
      ELSE IF s[v] = 34 /\ closing # {}
      THEN (CHOOSE q \in closing : \A r \in closing : q <= r) + 1
      ELSE IF s[v] = 44 THEN 0
      ELSE CHOOSE q \in (v + 1)..(Len(s) + 1) :
             /\ q > Len(s) \/ s[q] = 44
             /\ \A k \in v..(q - 1) : s[k] # 44

\* v[1:-1] when v starts and ends with a quote.
Unquote(v) ==
  IF v # <<>> /\ v[1] = 34 /\ v[Len(v)] = 34 THEN SubSeq(v, 2, Len(v) - 1) ELSE v

\* _TOKEN_RE.finditer from position i on: the <<key, value>> of every match
\* of (\w+)=(".*?"|[^,]+), the key in lower case, the value stripped and
\* unquoted.
RECURSIVE Tokens(_, _)
Tokens(s, i) ==
  LET starts == {p \in i..Len(s) :
                   /\ IsWord(s[p])
                   /\ WordEnd(s, p) <= Len(s)
                   /\ s[WordEnd(s, p)] = 61
                   /\ ValueEnd(s, WordEnd(s, p) + 1) # 0}
  IN  IF starts = {} THEN <<>>
      ELSE LET p == CHOOSE q \in starts : \A r \in starts : q <= r
               e == WordEnd(s, p)
               f == ValueEnd(s, e + 1)
           IN  << <<Lower(SubSeq(s, p, e - 1)),
                    Unquote(Strip(SubSeq(s, e + 1, f - 1)))>> >> \o Tokens(s, f)

\* _parse_www_authenticate: the parameters of the challenge as the sequence
\* of their assignments.
parse_www_authenticate(header_value) ==
  IF header_value = Null \/ header_value = <<>> THEN <<>>
  ELSE LET hv == Strip(header_value)
       IN  IF StartsWith(Lower(hv), <<100, 105, 103, 101, 115, 116, 32>> (* digest  *)) THEN Tokens(From(hv, 7), 1)
           ELSE Tokens(hv, 1)

\* DigestAuth._select_qop
select_qop(qop_value) ==
  IF qop_value = Null \/ qop_value = <<>> THEN Null
  ELSE LET parts == Split(qop_value, <<44>> (* , *))
           items == SelectSeq([k \in 1..Len(parts) |-> Strip(parts[k])],
                              LAMBDA x : x # <<>>)
       IN  IF \E k \in 1..Len(items) : items[k] = <<97, 117, 116, 104>> (* auth *) THEN <<97, 117, 116, 104>> (* auth *)
           ELSE IF items # <<>> THEN items[1] ELSE Null

\* DigestAuth.__init__
NoDigest ==
  [ realm |-> Null, nonce |-> Null, opaque |-> Null, algorithm |-> <<77, 68, 53>> (* MD5 *),
    qop |-> Null, nc |-> 0, cnonce |-> Null ]

\* The challenge resets the nonce count.
stale_resets_never(stale, nc) == nc

\* DigestAuth.update_from_challenge, its last step: a stale nonce resets
\* the nonce count.
stale_resets(stale, nc) == IF stale THEN 0 ELSE nc

\* stale of the challenge, as update_from_challenge reads it.
is_stale(params) == Lower(OrElse(Get(params, <<115, 116, 97, 108, 101>> (* stale *)), <<>>)) = <<116, 114, 117, 101>> (* true *)

\* DigestAuth.update_from_challenge: whether the challenge was taken, and
\* the state after it.
update_from_challenge(digest, www_authenticate) ==
  At(parse_www_authenticate(www_authenticate), LAMBDA params :
    IF params = <<>> \/ Get(params, <<110, 111, 110, 99, 101>> (* nonce *)) = Null \/ Get(params, <<114, 101, 97, 108, 109>> (* realm *)) = Null
    THEN [ok |-> FALSE, digest |-> digest]
    ELSE [ok |-> TRUE,
          digest |-> [digest EXCEPT
            !.realm = Get(params, <<114, 101, 97, 108, 109>> (* realm *)),
            !.nonce = Get(params, <<110, 111, 110, 99, 101>> (* nonce *)),
            !.opaque = Get(params, <<111, 112, 97, 113, 117, 101>> (* opaque *)),
            !.algorithm = Upper(OrElse(Get(params, <<97, 108, 103, 111, 114, 105, 116, 104, 109>> (* algorithm *)), <<77, 68, 53>> (* MD5 *))),
            !.qop = select_qop(Get(params, <<113, 111, 112>> (* qop *))),
            !.nc = stale_resets(is_stale(params), digest.nc)]])

\* f"{nc:08x}"
Hex8(n) == [i \in 1..8 |-> HexDigit((n \div (16 ^ (8 - i))) % 16)]

\* _hash(algorithm, data): the digest of the text made of the parts joined
\* by ":", kept as the parts it was made of.
hash(algorithm, parts) == [hash |-> algorithm, of |-> parts]

\* DigestAuth.build_authorization_header: the header as the sequence of its
\* items, and the state after it; raised when no challenge gave a realm and
\* a nonce. fresh is the value os.urandom(8).hex() would return.
build_authorization_header(digest, username, password, method, uri, fresh) ==
  IF OrElse(digest.realm, <<>>) = <<>> \/ OrElse(digest.nonce, <<>>) = <<>>
  THEN [raised |-> TRUE, digest |-> digest, header |-> Null]
  ELSE LET nc       == digest.nc + 1
           nc_value == Hex8(nc)
           cnonce   == OrElse(digest.cnonce, fresh)
           qop      == digest.qop
           alg      == digest.algorithm
           ha1_     == hash(alg, <<username, digest.realm, password>>)
           ha1      == IF EndsWith(alg, <<45, 83, 69, 83, 83>> (* -SESS *))
                       THEN hash(alg, <<ha1_, digest.nonce, cnonce>>) ELSE ha1_
           ha2      == hash(alg, <<method, uri>>)
           response == IF OrElse(qop, <<>>) # <<>>
                       THEN hash(alg, <<ha1, digest.nonce, nc_value, cnonce, qop, ha2>>)
                       ELSE hash(alg, <<ha1, digest.nonce, ha2>>)
       IN  [ raised |-> FALSE,
             digest |-> [digest EXCEPT !.nc = nc, !.cnonce = cnonce],
             header |->
               << <<"username", username>>, <<"realm", digest.realm>>,
                  <<"nonce", digest.nonce>>, <<"uri", uri>>,
                  <<"response", response>> >>
               \o (IF OrElse(digest.opaque, <<>>) # <<>>
                   THEN << <<"opaque", digest.opaque>> >> ELSE <<>>)
               \o (IF alg # <<>> THEN << <<"algorithm", alg>> >> ELSE <<>>)
               \o (IF OrElse(qop, <<>>) # <<>>
                   THEN << <<"qop", qop>>, <<"nc", nc_value>>, <<"cnonce", cnonce>> >>
                   ELSE <<>>) ]

\* The client's user name and password.
Username == <<97, 100, 109, 105, 110>> (* admin *)
Password == <<112, 97, 115, 115>> (* pass *)

\* WWW-Authenticate values a terminal answers 401 with: a challenge with
\* qop, one for a stale nonce, one for a stale nonce without qop and with
\* stale quoted in capitals, one without realm, one with an empty realm, and
\* a challenge for Basic.
ChallengeAuth == <<68, 105, 103, 101, 115, 116, 32, 114, 101, 97, 108, 109, 61, 34, 114, 34, 44, 32, 110, 111, 110, 99, 101, 61, 34, 110, 49, 34, 44, 32, 113, 111, 112, 61, 34, 97, 117, 116, 104, 44, 97, 117, 116, 104, 45, 105, 110, 116, 34, 44, 32, 111, 112, 97, 113, 117, 101, 61, 34, 111, 34>> (* Digest realm="r", nonce="n1", qop="auth,auth-int", opaque="o" *)
ChallengeStale == <<68, 105, 103, 101, 115, 116, 32, 114, 101, 97, 108, 109, 61, 34, 114, 34, 44, 32, 110, 111, 110, 99, 101, 61, 34, 110, 50, 34, 44, 32, 113, 111, 112, 61, 97, 117, 116, 104, 44, 32, 115, 116, 97, 108, 101, 61, 116, 114, 117, 101>> (* Digest realm="r", nonce="n2", qop=auth, stale=true *)
ChallengeStaleNoQop == <<68, 105, 103, 101, 115, 116, 32, 114, 101, 97, 108, 109, 61, 34, 114, 34, 44, 32, 110, 111, 110, 99, 101, 61, 34, 110, 51, 34, 44, 32, 97, 108, 103, 111, 114, 105, 116, 104, 109, 61, 109, 100, 53, 45, 115, 101, 115, 115, 44, 32, 115, 116, 97, 108, 101, 61, 34, 84, 82, 85, 69, 34>> (* Digest realm="r", nonce="n3", algorithm=md5-sess, stale="TRUE" *)
ChallengeNoRealm == <<68, 105, 103, 101, 115, 116, 32, 110, 111, 110, 99, 101, 61, 34, 110, 52, 34, 44, 32, 113, 111, 112, 61, 97, 117, 116, 104, 44, 32, 115, 116, 97, 108, 101, 61, 116, 114, 117, 101>> (* Digest nonce="n4", qop=auth, stale=true *)
ChallengeEmptyRealm == <<68, 105, 103, 101, 115, 116, 32, 114, 101, 97, 108, 109, 61, 34, 34, 44, 32, 110, 111, 110, 99, 101, 61, 34, 110, 53, 34, 44, 32, 113, 111, 112, 61, 97, 117, 116, 104>> (* Digest realm="", nonce="n5", qop=auth *)
ChallengeBasic == <<66, 97, 115, 105, 99, 32, 114, 101, 97, 108, 109, 61, 34, 114, 34>> (* Basic realm="r" *)
Challenges ==
  { ChallengeAuth, ChallengeStale, ChallengeStaleNoQop, ChallengeNoRealm,
    ChallengeEmptyRealm, ChallengeBasic }

\* A response as _request reads it: the status and the WWW-Authenticate
\* header (Null: none).
Response(status, www) == [status |-> status, www |-> www]

\* Answers to the first attempt and to the retry.
FirstResponses ==
  {Response(200, Null), Response(500, Null), Response(401, Null)}
  \cup {Response(401, c) : c \in Challenges}
RetryResponses == {Response(200, Null), Response(401, ChallengeStale)}

\* What os.urandom(8).hex() returns.
FreshCnonces == {<<99, 49>> (* c1 *), <<99, 50>> (* c2 *)}

\* The requests the client's methods make.
DeviceRequests ==
  { <<"GET", "/ISAPI/System/deviceInfo">>,
    <<"PUT", "/ISAPI/Event/notification/trigger">> }

\* The retry is sent with the headers of the first attempt.
retry_headers_unchanged(headers, authorization) == headers

\* _request: the headers of the retry, the Authorization header among them.
retry_headers(headers, authorization) ==
  [headers EXCEPT !.Authorization = authorization]

\* ISAPIDeviceClient.__init__: no challenge seen, no request made. log is
\* the history of the challenges update_from_challenge was given and of the
\* headers build_authorization_header returned.
NoDevice ==
  [ digest |-> NoDigest, pc |-> "idle", request |-> <<"", "">>,
    sent |-> <<>>, answers |-> <<>>, result |-> "", done |-> 0, log |-> <<>> ]

\* ISAPIDeviceManager, src/isapi/isapi_device_manager.py: the terminals of
\* the configuration and auto_configure_terminals' walk over them.
MaxTerminals == 3

EVENT_TYPES ==
  << <<102, 97, 99, 101, 77, 97, 116, 99, 104>> (* faceMatch *), <<99, 97, 114, 100, 83, 119, 105, 112, 101>> (* cardSwipe *), <<113, 114, 67, 111, 100, 101>> (* qrCode *), <<65, 99, 99, 101, 115, 115, 71, 114, 97, 110, 116, 101, 100>> (* AccessGranted *), <<65, 99, 99, 101, 115, 115, 68, 101, 110, 105, 101, 100>> (* AccessDenied *),
     <<77, 105, 110, 111, 114, 69, 118, 101, 110, 116>> (* MinorEvent *), <<67, 97, 112, 116, 117, 114, 101, 85, 112, 108, 111, 97, 100>> (* CaptureUpload *) >>

\* str.rstrip("/").
RECURSIVE rstrip_slash(_)
rstrip_slash(text) ==
  IF text # <<>> /\ text[Len(text)] = 47
  THEN rstrip_slash(SubSeq(text, 1, Len(text) - 1))
  ELSE text

callback_url(webhook_base) ==
  rstrip_slash(OrElse(webhook_base, <<>>)) \o <<47, 104, 105, 107, 118, 105, 115, 105, 111, 110, 47, 99, 97, 108, 108, 98, 97, 99, 107>> (* /hikvision/callback *)

\* re.fullmatch(r"[A-Fa-f0-9]{8,32}", device_id), after "if not device_id".
is_valid_device_id(device_id) ==
  /\ device_id # Null
  /\ device_id # <<>>
  /\ Len(device_id) >= 8
  /\ Len(device_id) <= 32
  /\ \A k \in 1..Len(device_id) :
       \/ device_id[k] >= 48 /\ device_id[k] <= 57
       \/ device_id[k] >= 65 /\ device_id[k] <= 70
       \/ device_id[k] >= 97 /\ device_id[k] <= 102

\* The terminals a configuration can list: with an address, with none, with
\* an empty one.
TerminalKinds ==
  { [ip_address |-> <<49, 48, 46, 48, 46, 48, 46, 53>> (* 10.0.0.5 *)], [ip_address |-> Null], [ip_address |-> <<>>] }
TerminalLists ==
  UNION { [1..n -> TerminalKinds] : n \in 0..MaxTerminals }
WebhookBases ==
  { Null, <<104, 116, 116, 112, 58, 47, 47, 104, 58, 56, 48, 48, 50>> (* http://h:8002 *), <<104, 116, 116, 112, 58, 47, 47, 104, 58, 56, 48, 48, 50, 47>> (* http://h:8002/ *), <<104, 116, 116, 112, 58, 47, 47, 104, 58, 56, 48, 48, 50, 47, 47>> (* http://h:8002// *) }

\* What get_device_info can return: None, or a DeviceInfo whose device_id is
\* missing, empty, too short, too long, not hexadecimal, or valid.
DeviceInfos ==
  { None,
    [none |-> FALSE, device_id |-> Null],
    [none |-> FALSE, device_id |-> <<>>],
    [none |-> FALSE, device_id |-> <<65, 65, 66, 66, 67, 67, 68>> (* AABBCCD *)],
    [none |-> FALSE, device_id |-> [k \in 1..33 |-> 65]],
    [none |-> FALSE, device_id |-> <<65, 65, 66, 66, 67, 67, 68, 71>> (* AABBCCDG *)],
    [none |-> FALSE, device_id |-> <<65, 65, 66, 66, 67, 67, 68, 68, 69, 69, 49, 49>> (* AABBCCDDEE11 *)],
    [none |-> FALSE, device_id |-> <<97, 97, 98, 98, 99, 99, 100, 100>> (* aabbccdd *)] }

\* "continue" in the loop over the terminals: on to the terminal after i.
Abandon(i, n) == n + 1
Continue(i, n) == i + 1

\* The terminals the loop goes through from the i-th on until it reaches one
\* with an address, where it waits for is_reachable; those without an
\* address are skipped on the way.
RECURSIVE Walk(_, _)
Walk(terminals, i) ==
  IF i > Len(terminals) THEN <<>>
  ELSE IF terminals[i].ip_address = Null \/ terminals[i].ip_address = <<>>
       THEN <<i>> \o Walk(terminals, Continue(i, Len(terminals)))
       ELSE <<i>>

\* The loop takes up the terminals from the i-th on.
Goto(p, i) ==
  LET walk == Walk(p.terminals, i)
      at   == IF walk = <<>> THEN 0 ELSE walk[Len(walk)]
      wait == at # 0 /\ p.terminals[at].ip_address # Null
                     /\ p.terminals[at].ip_address # <<>>
  IN  [p EXCEPT !.visited = @ \o walk,
                !.i = IF wait THEN at ELSE Len(p.terminals) + 1,
                !.pc = IF wait THEN "is_reachable" ELSE "done"]

\* ISAPIDeviceManager before auto_configure_terminals is called.
NoProv ==
  [ pc |-> "idle", terminals |-> <<>>, webhook_base |-> Null,
    callback_url |-> Null, i |-> 0, visited |-> <<>>, calls |-> <<>> ]

------------------------------------------------------------------------------
\* Hikvision alert stream, src/hikvision/alert_stream.py, with the multipart
\* parser (multipart_parser.py) and the event dispatcher
\* (event_dispatcher.py) it hands the parts to.

\* bytes.strip(b"\r\n")
RECURSIVE StripCrLf(_)
StripCrLf(s) ==
  IF s # <<>> /\ s[1] \in {10, 13} THEN StripCrLf(Tail(s))
  ELSE IF s # <<>> /\ s[Len(s)] \in {10, 13} THEN StripCrLf(SubSeq(s, 1, Len(s) - 1))
  ELSE s

\* HikvisionAlertStream._extract_boundary
extract_boundary(content_type) ==
  IF content_type = <<>> \/ ~Contains(content_type, <<98, 111, 117, 110, 100, 97, 114, 121, 61>> (* boundary= *)) THEN <<>>
  ELSE LET parts == Split(content_type, <<59>> (* ; *))
           k     == CHOOSE i \in 1..Len(parts) :
                      /\ Contains(parts[i], <<98, 111, 117, 110, 100, 97, 114, 121, 61>> (* boundary= *))
                      /\ \A j \in 1..(i - 1) : ~Contains(parts[j], <<98, 111, 117, 110, 100, 97, 114, 121, 61>> (* boundary= *))
       IN  StripQuotes(Strip(Split1(parts[k], <<61>> (* = *))[2]))

\* MultipartParser._parse_headers and headers.get("content-type", ""): the
\* value of the last Content-Type line of the block.
part_content_type(raw) ==
  LET lines == Split(raw, <<13, 10>>)
      items == [k \in 1..Len(lines) |->
                  IF Contains(lines[k], <<58>> (* : *))
                  THEN <<Lower(Strip(Split1(lines[k], <<58>> (* : *))[1])),
                         Strip(Split1(lines[k], <<58>> (* : *))[2])>>
                  ELSE <<Null, Null>>]
  IN  OrElse(Get(items, <<99, 111, 110, 116, 101, 110, 116, 45, 116, 121, 112, 101>> (* content-type *)), <<>>)

\* MultipartParser._detect_type
detect_type(content_type, body) ==
  LET ct      == Lower(content_type)
      trimmed == LStrip(body)
  IN  IF content_type # <<>> /\ Contains(ct, <<120, 109, 108>> (* xml *)) THEN "xml"
      ELSE IF content_type # <<>> /\ Contains(ct, <<106, 115, 111, 110>> (* json *)) THEN "json"
      ELSE IF content_type # <<>> /\ (Contains(ct, <<106, 112, 101, 103>> (* jpeg *)) \/ Contains(ct, <<106, 112, 103>> (* jpg *))
                                       \/ StartsWith(ct, <<105, 109, 97, 103, 101, 47>> (* image/ *))) THEN "image"
      ELSE IF trimmed = <<>> THEN "unknown"
      ELSE IF trimmed[1] = 60 THEN "xml"
      ELSE IF \E k \in 1..Len(trimmed) : trimmed[k] >= 128 THEN "unknown"
      ELSE IF trimmed[1] \in {91, 123} THEN "json"
      ELSE "xml"

\* MultipartParser.parse: the parts of the stream, each with its type and
\* body.
RECURSIVE parse_segments(_)
parse_segments(segments) ==
  IF segments = <<>> THEN <<>>
  ELSE At(Head(segments), LAMBDA seg0 :
         IF seg0 = <<>> \/ seg0 = <<45, 45>> (* -- *) \/ Strip(seg0) = <<>>
         THEN parse_segments(Tail(segments))
         ELSE LET seg1 == IF StartsWith(seg0, <<13, 10>>) THEN From(seg0, 2) ELSE seg0
                  seg2 == IF EndsWith(seg1, <<45, 45>> (* -- *)) THEN Slice(seg1, 0, Len(seg1) - 2) ELSE seg1
                  seg  == IF EndsWith(seg2, <<13, 10>>) THEN Slice(seg2, 0, Len(seg2) - 2) ELSE seg2
                  hb   == Split1(seg, <<13, 10, 13, 10>>)
                  body == IF Len(hb) = 2 THEN hb[2] ELSE StripCrLf(seg)
                  ctype == IF Len(hb) = 2 THEN part_content_type(hb[1]) ELSE <<>>
              IN  <<[type |-> detect_type(ctype, body), body |-> body]>>
                  \o parse_segments(Tail(segments)))

multipart_parse(stream, boundary) ==
  IF boundary = <<>> THEN <<>>
  ELSE parse_segments(Split(stream, <<45, 45>> (* -- *) \o boundary))

\* HikvisionAlertStream._process_buffer: the parts of the complete segments
\* of the buffer, and the remainder kept for the next chunk.
RECURSIVE buffer_parts(_, _)
buffer_parts(parts_data, boundary) ==
  IF parts_data = <<>> THEN <<>>
  ELSE At(StripCrLf(Head(parts_data)), LAMBDA raw_part :
         (IF raw_part = <<>> \/ raw_part = <<45, 45>> (* -- *) THEN <<>>
          ELSE multipart_parse(<<45, 45>> (* -- *) \o boundary \o raw_part, boundary))
         \o buffer_parts(Tail(parts_data), boundary))

process_buffer(buffer, boundary) ==
  IF boundary = <<>> THEN [remainder |-> buffer, parts |-> <<>>]
  ELSE At(Split(buffer, <<45, 45>> (* -- *) \o boundary), LAMBDA parts_data :
         LET last == parts_data[Len(parts_data)]
         IN  [ remainder |-> IF Strip(last) \in {<<>>, <<45, 45>> (* -- *)} THEN <<>> ELSE last,
               parts |-> buffer_parts(SubSeq(parts_data, 1, Len(parts_data) - 1),
                                      boundary) ])

\* HikvisionEventDispatcher.parse_xml and the unwrapping of _handle_part:
\* the dict of the children of the root, by the two keys the dispatchers
\* read; None when the XML does not parse ({} in the code).
parse_xml(payload) ==
  IF ~WellFormed(payload, 0, <<>>, 0) THEN None
  ELSE [ none |-> FALSE,
         eventType |-> findtext(payload, <<101, 118, 101, 110, 116, 84, 121, 112, 101>> (* eventType *)),
         deviceID |-> findtext(payload, <<100, 101, 118, 105, 99, 101, 73, 68>> (* deviceID *)) ]

\* HikvisionAlertStream._handle_part over the parts of a buffer: the events
\* parsed from the XML parts, each of them given to
\* dispatcher.handle_event.
RECURSIVE handle_parts(_)
handle_parts(parts) ==
  IF parts = <<>> THEN <<>>
  ELSE (IF Head(parts).type = "xml" /\ parse_xml(Decode(Head(parts).body)) # None
        THEN <<parse_xml(Decode(Head(parts).body))>> ELSE <<>>)
       \o handle_parts(Tail(parts))

\* HikvisionEventDispatcher.handle_event: the name of the handler the event
\* is routed to. The handlers (on_heartBeat, on_faceMatch,
\* on_accessControl, on_motion, on_temperature) write to the log; the
\* dispatcher holds no processor and hands the event to nothing else.
handle_event(event_dict) ==
  LET event_type == OrElse(event_dict.eventType, <<117, 110, 107, 110, 111, 119, 110>> (* unknown *))
  IN  IF event_type \in {<<104, 101, 97, 114, 116, 66, 101, 97, 116>> (* heartBeat *), <<102, 97, 99, 101, 77, 97, 116, 99, 104>> (* faceMatch *), <<97, 99, 99, 101, 115, 115, 67, 111, 110, 116, 114, 111, 108>> (* accessControl *), <<109, 111, 116, 105, 111, 110>> (* motion *), <<116, 101, 109, 112, 101, 114, 97, 116, 117, 114, 101>> (* temperature *)}
      THEN [handler |-> <<111, 110, 95>> (* on_ *) \o event_type, enqueued |-> FALSE]
      ELSE [handler |-> Null, enqueued |-> FALSE]

\* The loop of run() goes on after a stop.
loop_continues_always(running) == TRUE

\* HikvisionAlertStream.run: "while self._running" and "if self._running".
loop_continues(running) == running

\* HikvisionAlertStream._build_digest_header: the Authorization header for
\* the challenge as the sequence of its items, empty when the challenge is
\* not Digest. The nonce count is always 00000001; fresh is the value of
\* secrets.token_hex(8).
build_digest_header(auth_header, username, password, uri, fresh) ==
  IF ~StartsWith(Lower(auth_header), <<100, 105, 103, 101, 115, 116>> (* digest *)) THEN <<>>
  ELSE LET items == Split(From(auth_header, 7), <<44>> (* , *))
           parts == [k \in 1..Len(items) |->
                       IF Contains(items[k], <<61>> (* = *))
                       THEN <<Strip(Split1(items[k], <<61>> (* = *))[1]),
                              StripQuotes(Strip(Split1(items[k], <<61>> (* = *))[2]))>>
                       ELSE <<Null, Null>>]
           realm == IF Get(parts, <<114, 101, 97, 108, 109>> (* realm *)) = Null THEN <<>> ELSE Get(parts, <<114, 101, 97, 108, 109>> (* realm *))
           nonce == IF Get(parts, <<110, 111, 110, 99, 101>> (* nonce *)) = Null THEN <<>> ELSE Get(parts, <<110, 111, 110, 99, 101>> (* nonce *))
           qop   == IF Get(parts, <<113, 111, 112>> (* qop *)) = Null THEN <<97, 117, 116, 104>> (* auth *) ELSE Get(parts, <<113, 111, 112>> (* qop *))
           ha1   == hash(<<77, 68, 53>> (* MD5 *), <<username, realm, password>>)
           ha2   == hash(<<77, 68, 53>> (* MD5 *), <<"GET", uri>>)
       IN  << <<"username", username>>, <<"realm", realm>>, <<"nonce", nonce>>,
              <<"uri", uri>>, <<"algorithm", <<77, 68, 53>> (* MD5 *)>>,
              <<"response", hash(<<77, 68, 53>> (* MD5 *), <<ha1, nonce, <<48, 48, 48, 48, 48, 48, 48, 49>> (* 00000001 *), fresh, qop, ha2>>)>>,
              <<"qop", qop>>, <<"nc", <<48, 48, 48, 48, 48, 48, 48, 49>> (* 00000001 *)>>, <<"cnonce", fresh>> >>
           \o (IF OrElse(Get(parts, <<111, 112, 97, 113, 117, 101>> (* opaque *)), <<>>) # <<>>
               THEN << <<"opaque", Get(parts, <<111, 112, 97, 113, 117, 101>> (* opaque *))>> >> ELSE <<>>)

\* What the terminal sends on the stream: an XML part with a heart beat, an
\* XML part with an access event, an XML part that does not parse, an image
\* part, and the closing marker.
StreamXml(text) ==
  <<45, 45, 66>> (* --B *) \o <<13, 10>> \o <<67, 111, 110, 116, 101, 110, 116, 45, 84, 121, 112, 101, 58, 32, 97, 112, 112, 108, 105, 99, 97, 116, 105, 111, 110, 47, 120, 109, 108>> (* Content-Type: application/xml *) \o <<13, 10, 13, 10>>
  \o text \o <<13, 10>>
ChunkHeartBeat ==
  StreamXml(<<60, 69, 118, 101, 110, 116, 78, 111, 116, 105, 102, 105, 99, 97, 116, 105, 111, 110, 65, 108, 101, 114, 116, 62, 60, 101, 118, 101, 110, 116, 84, 121, 112, 101, 62, 104, 101, 97, 114, 116, 66, 101, 97, 116, 60, 47, 101, 118, 101, 110, 116, 84, 121, 112, 101, 62, 60, 47, 69, 118, 101, 110, 116, 78, 111, 116, 105, 102, 105, 99, 97, 116, 105, 111, 110, 65, 108, 101, 114, 116, 62>> (* <EventNotificationAlert><eventType>heartBeat</eventType></EventNotificationAlert> *))
ChunkAccess ==
  StreamXml(<<60, 69, 118, 101, 110, 116, 78, 111, 116, 105, 102, 105, 99, 97, 116, 105, 111, 110, 65, 108, 101, 114, 116, 62, 60, 100, 101, 118, 105, 99, 101, 73, 68, 62, 68, 49, 60, 47, 100, 101, 118, 105, 99, 101, 73, 68, 62, 60, 101, 118, 101, 110, 116, 84, 121, 112, 101, 62, 97, 99, 99, 101, 115, 115, 67, 111, 110, 116, 114, 111, 108, 60, 47, 101, 118, 101, 110, 116, 84, 121, 112, 101, 62, 60, 47, 69, 118, 101, 110, 116, 78, 111, 116, 105, 102, 105, 99, 97, 116, 105, 111, 110, 65, 108, 101, 114, 116, 62>> (* <EventNotificationAlert><deviceID>D1</deviceID><eventType>accessControl</eventType></EventNotificationAlert> *))
ChunkBadXml == StreamXml(<<60, 69, 118, 101, 110, 116, 78, 111, 116, 105, 102, 105, 99, 97, 116, 105, 111, 110, 65, 108, 101, 114, 116, 62, 60, 101, 118, 101, 110, 116, 84, 121, 112, 101, 62>> (* <EventNotificationAlert><eventType> *))
ChunkImage ==
  <<45, 45, 66>> (* --B *) \o <<13, 10>> \o <<67, 111, 110, 116, 101, 110, 116, 45, 84, 121, 112, 101, 58, 32, 105, 109, 97, 103, 101, 47, 106, 112, 101, 103>> (* Content-Type: image/jpeg *) \o <<13, 10, 13, 10, 255, 216, 13, 10>>
ChunkClosing == <<45, 45, 66, 45, 45>> (* --B-- *)
StreamChunks == {ChunkHeartBeat, ChunkAccess, ChunkBadXml, ChunkImage, ChunkClosing}

\* Content-Type of the stream's response, with and without boundary.
StreamTypes == {<<109, 117, 108, 116, 105, 112, 97, 114, 116, 47, 109, 105, 120, 101, 100, 59, 32, 98, 111, 117, 110, 100, 97, 114, 121, 61, 34, 66, 34>> (* multipart/mixed; boundary="B" *), <<116, 101, 120, 116, 47, 112, 108, 97, 105, 110>> (* text/plain *)}

\* Answers of the terminal to the GET of the stream and to its retry: the
\* status, the WWW-Authenticate header and the Content-Type.
StreamResponse(status, www, content_type) ==
  [status |-> status, www |-> www, content_type |-> content_type]
StreamFirstResponses ==
  {StreamResponse(200, Null, t) : t \in StreamTypes}
  \cup {StreamResponse(401, w, <<>>) : w \in {Null, ChallengeAuth, ChallengeBasic}}
StreamRetryResponses ==
  {StreamResponse(200, Null, <<109, 117, 108, 116, 105, 112, 97, 114, 116, 47, 109, 105, 120, 101, 100, 59, 32, 98, 111, 117, 110, 100, 97, 114, 121, 61, 34, 66, 34>> (* multipart/mixed; boundary="B" *)),
   StreamResponse(401, ChallengeAuth, <<>>)}

StreamUri == "/ISAPI/Event/notification/alertStream"

\* HikvisionAlertStream.__init__: not running. sent and answers are the
\* exchanges of the connection attempt in hand; parsed and handled are the
\* history of the events parsed from the stream and of the handlers
\* handle_event routed them to.
NoStream ==
  [ running |-> FALSE, pc |-> "idle", attempts |-> 0, chunks |-> 0,
    sent |-> <<>>, answers |-> <<>>, boundary |-> <<>>, buffer |-> <<>>,
    parsed |-> <<>>, handled |-> <<>> ]

\* A parser that reads the root of the document only.
ParseRootOnly(xml_payload) ==
  IF ~WellFormed(xml_payload, 0, <<>>, 0) THEN <<>>
  ELSE <<[ deviceID |-> findtext(xml_payload, <<100, 101, 118, 105, 99, 101, 73, 68>> (* deviceID *)),
           eventDateTime |-> findtext(xml_payload, <<101, 118, 101, 110, 116, 68, 97, 116, 101, 84, 105, 109, 101>> (* eventDateTime *)) ]>>

\* CallbackParser.parse: one event for the root when it is an
\* EventNotificationAlert, else one for every EventNotificationAlert below
\* it, else one for the root; no event when the XML does not parse.
callback_parse(xml_payload) ==
  IF ~WellFormed(xml_payload, 0, <<>>, 0) THEN <<>>
  ELSE LET nodes == Split(xml_payload, <<60, 69, 118, 101, 110, 116, 78, 111, 116, 105, 102, 105, 99, 97, 116, 105, 111, 110, 65, 108, 101, 114, 116, 62>> (* <EventNotificationAlert> *))
           event(node) == [ deviceID |-> findtext(node, <<100, 101, 118, 105, 99, 101, 73, 68>> (* deviceID *)),
                            eventDateTime |-> OrElse(findtext(node, <<101, 118, 101, 110, 116, 68, 97, 116, 101, 84, 105, 109, 101>> (* eventDateTime *)),
                                                     findtext(node, <<100, 97, 116, 101, 84, 105, 109, 101>> (* dateTime *))) ]
       IN  IF StartsWith(xml_payload, <<60, 69, 118, 101, 110, 116, 78, 111, 116, 105, 102, 105, 99, 97, 116, 105, 111, 110, 65, 108, 101, 114, 116, 62>> (* <EventNotificationAlert> *)) \/ Len(nodes) = 1
           THEN <<event(xml_payload)>>
           ELSE [k \in 1..(Len(nodes) - 1) |-> event(nodes[k + 1])]

\* Bodies of the callbacks: an event of an allowed device, one of another
\* device, a list of both, XML that does not parse, and nothing.
CallbackEvent(device) ==
  <<60, 69, 118, 101, 110, 116, 78, 111, 116, 105, 102, 105, 99, 97, 116, 105, 111, 110, 65, 108, 101, 114, 116, 62, 60, 100, 101, 118, 105, 99, 101, 73, 68, 62>> (* <EventNotificationAlert><deviceID> *) \o device
  \o <<60, 47, 100, 101, 118, 105, 99, 101, 73, 68, 62, 60, 101, 118, 101, 110, 116, 68, 97, 116, 101, 84, 105, 109, 101, 62, 116, 115, 60, 47, 101, 118, 101, 110, 116, 68, 97, 116, 101, 84, 105, 109, 101, 62, 60, 47, 69, 118, 101, 110, 116, 78, 111, 116, 105, 102, 105, 99, 97, 116, 105, 111, 110, 65, 108, 101, 114, 116, 62>> (* </deviceID><eventDateTime>ts</eventDateTime></EventNotificationAlert> *)
CallbackBodies ==
  { CallbackEvent(<<65, 76, 76, 79, 87, 69, 68>> (* ALLOWED *)), CallbackEvent(<<66, 76, 79, 67, 75, 69, 68>> (* BLOCKED *)),
    <<60, 76, 105, 115, 116, 62>> (* <List> *) \o CallbackEvent(<<66, 76, 79, 67, 75, 69, 68>> (* BLOCKED *)) \o CallbackEvent(<<65, 76, 76, 79, 87, 69, 68>> (* ALLOWED *)) \o <<60, 47, 76, 105, 115, 116, 62>> (* </List> *),
    <<60, 69, 118, 101, 110, 116, 78, 111, 116, 105, 102, 105, 99, 97, 116, 105, 111, 110, 65, 108, 101, 114, 116, 62, 60, 100, 101, 118, 105, 99, 101, 73, 68, 62>> (* <EventNotificationAlert><deviceID> *), <<>> }

\* callback_parse of every body of the model.
CallbackEvents == [body \in CallbackBodies |-> callback_parse(body)]

\* The devices the deployment allows callbacks from.
allowed_device_ids == {<<65, 76, 76, 79, 87, 69, 68>> (* ALLOWED *)}

\* HikvisionCallbackHandler before its first request.
NoCallback == [served |-> 0, body |-> <<>>, events |-> <<>>, status |-> 0]

\* Bodies of an alert stream, boundary B, each closed by --B--: the body of
\* test_alert_stream.py (one XML part), two XML parts, an XML part and an
\* image, a body that begins with an empty segment (keep-alive filler), and
\* a part without header block.
FeedBoundary == <<66>> (* B *)
FeedXml == <<45, 45, 66>> (* --B *) \o <<13, 10>> \o <<67, 111, 110, 116, 101, 110, 116, 45, 84, 121, 112, 101, 58, 32, 116, 101, 120, 116, 47, 120, 109, 108>> (* Content-Type: text/xml *) \o <<13, 10, 13, 10>> \o <<60, 69, 47, 62>> (* <E/> *) \o <<13, 10>>
FeedImage == <<45, 45, 66>> (* --B *) \o <<13, 10>> \o <<67, 111, 110, 116, 101, 110, 116, 45, 84, 121, 112, 101, 58, 32, 105, 109, 97, 103, 101, 47, 106, 112, 101, 103>> (* Content-Type: image/jpeg *) \o <<13, 10, 13, 10, 255, 216, 13, 10>>
FeedBare == <<45, 45, 66>> (* --B *) \o <<13, 10>> \o <<60, 69, 47, 62>> (* <E/> *) \o <<13, 10>>
StreamBodies ==
  { FeedXml \o <<45, 45, 66, 45, 45>> (* --B-- *),
    FeedXml \o FeedXml \o <<45, 45, 66, 45, 45>> (* --B-- *),
    FeedXml \o FeedImage \o <<45, 45, 66, 45, 45>> (* --B-- *) \o <<13, 10>>,
    <<45, 45, 66>> (* --B *) \o <<13, 10>> \o FeedXml \o <<45, 45, 66, 45, 45>> (* --B-- *),
    FeedBare \o <<45, 45, 66, 45, 45>> (* --B-- *) }

\* _process_buffer on the whole body in one call.
Whole == [body \in StreamBodies |-> process_buffer(body, FeedBoundary)]

\* A body before any of it is read: at is the number of its bytes read so
\* far, remainder what the last call of _process_buffer returned, parts the
\* parts handed to _handle_part so far, first the length of the first chunk.
NoFeed == [body |-> <<>>, at |-> 0, first |-> 0, remainder |-> <<>>, parts |-> <<>>]

\* Bodies given to MultipartParser.parse on its own: up to MaxSegments
\* segments after the marker --B, each of one kind, then the end of the
\* body. raw is the segment as it stands after its marker, body the body of
\* the part it carries (empty for the filler between two markers and for a
\* header block with nothing after it).
MaxSegments == 2

SegmentKinds ==
  [ xml  |-> [raw  |-> <<13, 10>> \o <<67, 111, 110, 116, 101, 110, 116, 45, 84, 121, 112, 101, 58, 32, 116, 101, 120, 116, 47, 120, 109, 108>> (* Content-Type: text/xml *) \o <<13, 10, 13, 10>> \o <<60, 69, 47, 62>> (* <E/> *) \o <<13, 10>>,
              body |-> <<60, 69, 47, 62>> (* <E/> *)],
    img  |-> [raw  |-> <<13, 10>> \o <<67, 111, 110, 116, 101, 110, 116, 45, 84, 121, 112, 101, 58, 32, 105, 109, 97, 103, 101, 47, 106, 112, 101, 103>> (* Content-Type: image/jpeg *) \o <<13, 10, 13, 10, 255, 216, 13, 10>>,
              body |-> <<255, 216>>],
    bare |-> [raw  |-> <<13, 10>> \o <<60, 65, 47, 62>> (* <A/> *) \o <<13, 10>>,
              body |-> <<60, 65, 47, 62>> (* <A/> *)],
    fill |-> [raw  |-> <<13, 10>>,
              body |-> <<>>],
    hdr  |-> [raw  |-> <<13, 10>> \o <<67, 111, 110, 116, 101, 110, 116, 45, 84, 121, 112, 101, 58, 32, 116, 101, 120, 116, 47, 120, 109, 108>> (* Content-Type: text/xml *) \o <<13, 10, 13, 10, 13, 10>>,
              body |-> <<>>] ]

Closings == {<<>>, <<45, 45, 66, 45, 45>> (* --B-- *), <<45, 45, 66, 45, 45>> (* --B-- *) \o <<13, 10>>}

SegmentLists == UNION {[1..n -> DOMAIN SegmentKinds] : n \in 0..MaxSegments}

RECURSIVE StreamOf(_, _)
StreamOf(kinds, closing) ==
  IF kinds = <<>> THEN closing
  ELSE <<45, 45, 66>> (* --B *) \o SegmentKinds[Head(kinds)].raw \o StreamOf(Tail(kinds), closing)

\* The parser before a body is given to it.
NoScan == [pc |-> "idle", kinds |-> <<>>, closing |-> <<>>, parts |-> <<>>]

\* Batched documents given to CallbackParser.parse on its own: up to
\* MaxAlerts EventNotificationAlert elements inside <Events>, as in
\* test_callback_parser.py; each kind of element has its own fields (xml its
\* text, event the fields CallbackParser reads from it). A broken document
\* lacks the closing tag of its root.
MaxAlerts == 2

AlertKinds ==
  [ both   |-> [xml   |-> <<60, 69, 118, 101, 110, 116, 78, 111, 116, 105, 102, 105, 99, 97, 116, 105, 111, 110, 65, 108, 101, 114, 116, 62, 60, 100, 101, 118, 105, 99, 101, 73, 68, 62, 65, 60, 47, 100, 101, 118, 105, 99, 101, 73, 68, 62, 60, 100, 97, 116, 101, 84, 105, 109, 101, 62, 49, 60, 47, 100, 97, 116, 101, 84, 105, 109, 101, 62, 60, 47, 69, 118, 101, 110, 116, 78, 111, 116, 105, 102, 105, 99, 97, 116, 105, 111, 110, 65, 108, 101, 114, 116, 62>> (* <EventNotificationAlert><deviceID>A</deviceID><dateTime>1</dateTime></EventNotificationAlert> *),
                event |-> [deviceID |-> <<65>> (* A *), eventDateTime |-> <<49>> (* 1 *)]],
    device |-> [xml   |-> <<60, 69, 118, 101, 110, 116, 78, 111, 116, 105, 102, 105, 99, 97, 116, 105, 111, 110, 65, 108, 101, 114, 116, 62, 60, 100, 101, 118, 105, 99, 101, 73, 68, 62, 66, 60, 47, 100, 101, 118, 105, 99, 101, 73, 68, 62, 60, 47, 69, 118, 101, 110, 116, 78, 111, 116, 105, 102, 105, 99, 97, 116, 105, 111, 110, 65, 108, 101, 114, 116, 62>> (* <EventNotificationAlert><deviceID>B</deviceID></EventNotificationAlert> *),
                event |-> [deviceID |-> <<66>> (* B *), eventDateTime |-> Null]],
    other  |-> [xml   |-> <<60, 69, 118, 101, 110, 116, 78, 111, 116, 105, 102, 105, 99, 97, 116, 105, 111, 110, 65, 108, 101, 114, 116, 62, 60, 100, 101, 118, 105, 99, 101, 73, 68, 62, 67, 60, 47, 100, 101, 118, 105, 99, 101, 73, 68, 62, 60, 47, 69, 118, 101, 110, 116, 78, 111, 116, 105, 102, 105, 99, 97, 116, 105, 111, 110, 65, 108, 101, 114, 116, 62>> (* <EventNotificationAlert><deviceID>C</deviceID></EventNotificationAlert> *),
                event |-> [deviceID |-> <<67>> (* C *), eventDateTime |-> Null]],
    time   |-> [xml   |-> <<60, 69, 118, 101, 110, 116, 78, 111, 116, 105, 102, 105, 99, 97, 116, 105, 111, 110, 65, 108, 101, 114, 116, 62, 60, 101, 118, 101, 110, 116, 68, 97, 116, 101, 84, 105, 109, 101, 62, 51, 60, 47, 101, 118, 101, 110, 116, 68, 97, 116, 101, 84, 105, 109, 101, 62, 60, 47, 69, 118, 101, 110, 116, 78, 111, 116, 105, 102, 105, 99, 97, 116, 105, 111, 110, 65, 108, 101, 114, 116, 62>> (* <EventNotificationAlert><eventDateTime>3</eventDateTime></EventNotificationAlert> *),
                event |-> [deviceID |-> Null, eventDateTime |-> <<51>> (* 3 *)]],
    empty  |-> [xml   |-> <<60, 69, 118, 101, 110, 116, 78, 111, 116, 105, 102, 105, 99, 97, 116, 105, 111, 110, 65, 108, 101, 114, 116, 62, 60, 47, 69, 118, 101, 110, 116, 78, 111, 116, 105, 102, 105, 99, 97, 116, 105, 111, 110, 65, 108, 101, 114, 116, 62>> (* <EventNotificationAlert></EventNotificationAlert> *),
                event |-> [deviceID |-> Null, eventDateTime |-> Null]] ]

AlertLists == UNION {[1..n -> DOMAIN AlertKinds] : n \in 0..MaxAlerts}

RECURSIVE AlertsXml(_)
AlertsXml(alerts) ==
  IF alerts = <<>> THEN <<>>
  ELSE AlertKinds[Head(alerts)].xml \o AlertsXml(Tail(alerts))

DocumentOf(alerts, broken) ==
  <<60, 69, 118, 101, 110, 116, 115, 62>> (* <Events> *) \o AlertsXml(alerts) \o (IF broken THEN <<>> ELSE <<60, 47, 69, 118, 101, 110, 116, 115, 62>> (* </Events> *))

\* The parser before a document is given to it.
NoBatch == [pc |-> "idle", alerts |-> <<>>, broken |-> FALSE, events |-> <<>>]

\* The listener of listener.py (path /hikvision/event) behind the same
\* dispatcher. A parsed payload is described by what the listener looks at:
\* its kind (dict or list), its length, whether its entry is itself a dict
\* (nested: the root of an XML document with children, a JSON object that
\* wraps the event), the eventType of the event and the images attached.
EmptyDict ==
  [kind |-> "dict", len |-> 0, nested |-> FALSE, eventType |-> Null, images |-> <<>>]

\* HikvisionEventDispatcher.parse_xml with _element_to_dict: {} when the
\* XML does not parse, else one entry named by the root, a dict when the
\* root has children and its text otherwise.
element_to_dict(xml_payload) ==
  IF ~WellFormed(xml_payload, 0, <<>>, 0) THEN EmptyDict
  ELSE LET children == \E k \in 2..(Len(xml_payload) - 1) :
                         xml_payload[k] = 60 /\ xml_payload[k + 1] # 47
       IN  [ kind |-> "dict", len |-> 1, nested |-> children,
             eventType |-> IF children THEN findtext(xml_payload, <<101, 118, 101, 110, 116, 84, 121, 112, 101>> (* eventType *)) ELSE Null,
             images |-> <<>> ]

\* json.loads on the JSON texts of the model: an event, an event inside a
\* wrapper, the empty object, a list, and a text cut short.
JsonDocuments ==
  { [text |-> <<123, 34, 101, 118, 101, 110, 116, 84, 121, 112, 101, 34, 58, 34, 109, 111, 116, 105, 111, 110, 34, 125>> (* {"eventType":"motion"} *), parses |-> TRUE,
     value |-> [kind |-> "dict", len |-> 1, nested |-> FALSE, eventType |-> <<109, 111, 116, 105, 111, 110>> (* motion *), images |-> <<>>]],
    [text |-> <<123, 34, 69, 118, 101, 110, 116, 78, 111, 116, 105, 102, 105, 99, 97, 116, 105, 111, 110, 65, 108, 101, 114, 116, 34, 58, 123, 34, 101, 118, 101, 110, 116, 84, 121, 112, 101, 34, 58, 34, 109, 111, 116, 105, 111, 110, 34, 125, 125>> (* {"EventNotificationAlert":{"eventType":"motion"}} *), parses |-> TRUE,
     value |-> [kind |-> "dict", len |-> 1, nested |-> TRUE, eventType |-> <<109, 111, 116, 105, 111, 110>> (* motion *), images |-> <<>>]],
    [text |-> <<123, 125>> (* {} *), parses |-> TRUE, value |-> EmptyDict],
    [text |-> <<91, 49, 93>> (* [1] *), parses |-> TRUE,
     value |-> [kind |-> "list", len |-> 1, nested |-> FALSE, eventType |-> Null, images |-> <<>>]],
    [text |-> <<123, 34, 101, 118, 101, 110, 116, 84, 121, 112, 101, 34>> (* {"eventType" *), parses |-> FALSE, value |-> EmptyDict] }

\* HikvisionEventDispatcher.parse_json: {} when json.loads raises.
parse_json(json_payload) ==
  IF \E d \in JsonDocuments : d.text = json_payload /\ d.parses
  THEN (CHOOSE d \in JsonDocuments : d.text = json_payload).value
  ELSE EmptyDict

\* A listener that never hands an event on.
DispatchNothing(event, raises) == [calls |-> <<>>, raised |-> FALSE]

\* HikvisionCallbackHandler._dispatch: the calls of handle_event it makes
\* and whether an exception leaves it. Nothing is called for an empty
\* payload; a list of one item raises AttributeError at event.values(); a
\* dict whose only entry is a dict is unwrapped; raises says whether the
\* handler the event is routed to raises.
dispatch(event, raises) ==
  IF event.len = 0 THEN [calls |-> <<>>, raised |-> FALSE]
  ELSE IF event.kind = "list" THEN [calls |-> <<>>, raised |-> TRUE]
  ELSE LET payload ==
             IF event.len = 1 /\ (event.nested \/ event.images # <<>>)
             THEN [eventType |-> event.eventType, images |-> <<>>]
             ELSE [eventType |-> IF event.nested THEN Null ELSE event.eventType,
                   images |-> event.images]
       IN  [calls |-> <<payload>>, raised |-> raises]

\* The loop of _handle_multipart over the parts: the text of the last XML
\* part, of the last JSON part, and the file names of the JPEG parts.
RECURSIVE read_parts(_, _)
read_parts(parts, acc) ==
  IF parts = <<>> THEN acc
  ELSE LET part  == Head(parts)
           ctype == Lower(part.content_type)
       IN  read_parts(Tail(parts),
             IF Contains(ctype, <<120, 109, 108>> (* xml *)) THEN [acc EXCEPT !.xml_payload = part.text]
             ELSE IF Contains(ctype, <<106, 115, 111, 110>> (* json *)) THEN [acc EXCEPT !.json_payload = part.text]
             ELSE IF Contains(ctype, <<106, 112, 101, 103>> (* jpeg *)) \/ Contains(ctype, <<106, 112, 103>> (* jpg *))
                  THEN [acc EXCEPT !.images =
                          IF \E k \in 1..Len(@) : @[k] = part.filename THEN @
                          ELSE Append(@, part.filename)]
             ELSE acc)

\* HikvisionCallbackHandler._handle_multipart; event["images"] = images
\* raises TypeError when the JSON is a list.
handle_multipart(parts, raises) ==
  LET read  == read_parts(parts, [xml_payload |-> Null, json_payload |-> Null, images |-> <<>>])
      event == IF read.xml_payload \notin {Null, <<>>} THEN element_to_dict(read.xml_payload)
               ELSE IF read.json_payload \notin {Null, <<>>} THEN parse_json(read.json_payload)
               ELSE EmptyDict
  IN  IF read.images = <<>> THEN dispatch(event, raises)
      ELSE IF event.kind # "dict" THEN [calls |-> <<>>, raised |-> TRUE]
      ELSE dispatch([event EXCEPT !.len = @ + 1, !.images = read.images], raises)

\* HikvisionCallbackHandler.handle up to its except clause. request.multipart()
\* raises when the Content-Type names no boundary.
listener_handle(request) ==
  LET content_type == Lower(request.content_type)
  IN  IF Contains(content_type, <<109, 117, 108, 116, 105, 112, 97, 114, 116>> (* multipart *))
      THEN IF ~Contains(content_type, <<98, 111, 117, 110, 100, 97, 114, 121, 61>> (* boundary= *)) THEN [calls |-> <<>>, raised |-> TRUE]
           ELSE handle_multipart(request.parts, request.raises)
      ELSE IF Contains(content_type, <<120, 109, 108>> (* xml *)) THEN dispatch(element_to_dict(request.body), request.raises)
      ELSE IF Contains(content_type, <<106, 115, 111, 110>> (* json *)) THEN dispatch(parse_json(request.body), request.raises)
      ELSE dispatch(element_to_dict(request.body), request.raises)

\* Requests to the listener: a body under a content type, or up to MaxParts
\* parts of a multipart body; raises says whether the handler of the event
\* raises. ListenerXml is the XML of test_listener.py.
MaxParts == 2
ListenerXml == <<60, 69, 118, 101, 110, 116, 78, 111, 116, 105, 102, 105, 99, 97, 116, 105, 111, 110, 65, 108, 101, 114, 116, 62, 60, 101, 118, 101, 110, 116, 84, 121, 112, 101, 62, 109, 111, 116, 105, 111, 110, 60, 47, 101, 118, 101, 110, 116, 84, 121, 112, 101, 62, 60, 47, 69, 118, 101, 110, 116, 78, 111, 116, 105, 102, 105, 99, 97, 116, 105, 111, 110, 65, 108, 101, 114, 116, 62>> (* <EventNotificationAlert><eventType>motion</eventType></EventNotificationAlert> *)
ListenerBodies == {ListenerXml, XmlEmptyElement, XmlBad} \cup {d.text : d \in JsonDocuments}
PlainTypes == {<<97, 112, 112, 108, 105, 99, 97, 116, 105, 111, 110, 47, 120, 109, 108>> (* application/xml *), <<97, 112, 112, 108, 105, 99, 97, 116, 105, 111, 110, 47, 106, 115, 111, 110>> (* application/json *), <<116, 101, 120, 116, 47, 112, 108, 97, 105, 110>> (* text/plain *), <<>>}
PartKinds ==
  { [content_type |-> <<97, 112, 112, 108, 105, 99, 97, 116, 105, 111, 110, 47, 120, 109, 108>> (* application/xml *), text |-> ListenerXml, filename |-> Null],
    [content_type |-> <<116, 101, 120, 116, 47, 120, 109, 108>> (* text/xml *), text |-> XmlBad, filename |-> Null],
    [content_type |-> <<105, 109, 97, 103, 101, 47, 106, 112, 101, 103>> (* image/jpeg *), text |-> <<255, 216>>, filename |-> <<105, 109, 103, 46, 106, 112, 103>> (* img.jpg *)],
    [content_type |-> <<105, 109, 97, 103, 101, 47, 112, 110, 103>> (* image/png *), text |-> <<137, 80>>, filename |-> <<105, 109, 103, 46, 112, 110, 103>> (* img.png *)] }
  \cup {[content_type |-> <<97, 112, 112, 108, 105, 99, 97, 116, 105, 111, 110, 47, 106, 115, 111, 110>> (* application/json *), text |-> d.text, filename |-> Null] : d \in JsonDocuments}
PartLists == UNION {[1..n -> PartKinds] : n \in 0..MaxParts}
ListenerRequests ==
  {[content_type |-> t, body |-> b, parts |-> <<>>, raises |-> r] :
     t \in PlainTypes, b \in ListenerBodies, r \in BOOLEAN}
  \cup {[content_type |-> <<109, 117, 108, 116, 105, 112, 97, 114, 116, 47, 102, 111, 114, 109, 45, 100, 97, 116, 97, 59, 32, 98, 111, 117, 110, 100, 97, 114, 121, 61, 66>> (* multipart/form-data; boundary=B *), body |-> <<>>, parts |-> p, raises |-> r] :
          p \in PartLists, r \in BOOLEAN}
  \cup {[content_type |-> <<109, 117, 108, 116, 105, 112, 97, 114, 116, 47, 102, 111, 114, 109, 45, 100, 97, 116, 97>> (* multipart/form-data *), body |-> <<>>, parts |-> <<>>, raises |-> r] :
          r \in BOOLEAN}

\* The listener before its first request; calls are the calls of
\* handle_event made for the request.
NoListener ==
  [served |-> 0, request |-> [content_type |-> <<>>, body |-> <<>>, parts |-> <<>>, raises |-> FALSE],
   calls |-> <<>>, raised |-> FALSE, status |-> 0]

\* The alert stream before run(), the callback listener before a request,
\* the events the processor's enqueue_event has been called with, a body of
\* the stream read on its own, a body parsed on its own, a document
\* parsed on its own and the listener of listener.py.
NoHik ==
  [ stream |-> NoStream, callback |-> NoCallback, enqueued |-> <<>>,
    feed |-> NoFeed, scan |-> NoScan, batch |-> NoBatch,
    listener |-> NoListener ]


------------------------------------------------------------------------------
\* Initial state: processor, store and server constructed, nothing received.

Init ==
  /\ pending = {}
  /\ upstream = <<>>
  /\ metrics = [ events_ok |-> 0, events_failed |-> 0, events_retried_ok |-> 0,
                 events_retried_fail |-> 0, connections_total |-> 0,
                 events_received |-> 0 ]
  /\ task = [t \in Tasks |-> IdleTask]
  /\ conn = NoConn
  /\ retry = [pc |-> "load", batch |-> <<>>, status |-> -1, iterations |-> 0,
              loaded |-> {}, sinceRecovery |-> FALSE]
  /\ now = 0
  /\ nextEid = 1
  /\ nextUuid = 1
  /\ recovered = FALSE
  /\ removed = {}
  /\ calls = {}
  /\ codec = NoCodec
  /\ web = NoWeb(Null)
  /\ dev = NoDevice
  /\ prov = NoProv
  /\ hik = NoHik

------------------------------------------------------------------------------
\* Actions.

\* process_isapi_event is called with a parsed webhook event.
ProcessIsapiEvent ==
  /\ task["isapi"].pc = "idle"
  /\ nextEid <= MaxEvents
  /\ \E mac \in MacInputs, outcome \in SaveOutcomes, uuid \in FreshUuids :
       LET event == [IsapiEvent(mac) EXCEPT
                       !.eid = nextEid, !.event_source = "ISAPI",
                       !.client_ip = <<49>>,
                       !.timestamp = normalize_ts(IsapiEvent(mac).timestamp)]
           r     == Route("isapi", event, event.mac_address, outcome, uuid)
       IN  /\ task' = [task EXCEPT !["isapi"] = r.task]
           /\ pending' = r.pending
           /\ metrics' = r.metrics
           /\ nextUuid' = r.nextUuid
           /\ calls' = r.calls
  /\ nextEid' = nextEid + 1
  /\ UNCHANGED <<dev, prov, hik, web, codec, upstream, conn, retry, now, recovered, removed>>

\* The tenant's endpoint answers the POST of a processor call (or the POST
\* raises): send_to_1c returns.
UpstreamAnswer ==
  \E t \in Tasks, status \in Answers :
    /\ task[t].pc = "sending"
    /\ upstream' = Append(upstream, Request(t, task[t].ev, task[t].tenant, status))
    /\ task' = [task EXCEPT ![t].pc = "sent", ![t].status = status]
    /\ UNCHANGED <<dev, prov, hik, web, codec, pending, metrics, conn, retry, now, nextEid, nextUuid,
                   recovered, removed, calls>>

\* process_isapi_event goes on after send_to_1c and returns.
IsapiAfterSend ==
  /\ task["isapi"].pc = "sent"
  /\ \E outcome \in SaveOutcomes, uuid \in FreshUuids :
       LET r == Finish("isapi", outcome, uuid)
       IN  /\ pending' = r.pending
           /\ metrics' = r.metrics
           /\ nextUuid' = r.nextUuid
           /\ calls' = r.calls
  /\ task' = [task EXCEPT !["isapi"] = IdleTask]
  /\ UNCHANGED <<dev, prov, hik, web, codec, upstream, conn, retry, now, nextEid, recovered, removed>>

\* A device connects: _handle_client starts.
Accept ==
  /\ conn.pc = "NONE"
  /\ conn' = [conn EXCEPT !.pc = "READ_HEADER"]
  /\ metrics' = [metrics EXCEPT !.connections_total = @ + 1]
  /\ UNCHANGED <<dev, prov, hik, web, codec, pending, upstream, task, retry, now, nextEid, nextUuid,
                 recovered, removed, calls>>

\* readexactly(HEADER_SIZE) returns the header of the next frame; a header
\* without the marker ends the loop and the connection is closed.
ReadHeader ==
  /\ conn.pc = "READ_HEADER"
  /\ Len(conn.frames) < MaxFrames
  /\ \E f \in Frames :
       LET header_bytes == Slice(f, 0, HEADER_SIZE)
           header       == parse_header(header_bytes)
       IN  conn' = IF header = None
                   THEN [conn EXCEPT !.pc = "CLOSED", !.header_bytes = header_bytes,
                                     !.header = None, !.rx = f]
                   ELSE [conn EXCEPT !.pc = "READ_BODY", !.header_bytes = header_bytes,
                                     !.header = header, !.rx = f,
                                     !.frames = Append(@, header_bytes)]
  /\ UNCHANGED <<dev, prov, hik, web, codec, pending, upstream, metrics, task, retry, now, nextEid, nextUuid,
                 recovered, removed, calls>>

\* readexactly raises IncompleteReadError (the peer closed, or sent less than
\* the header or the body announced): the connection is closed.
ShortRead ==
  /\ conn.pc \in {"READ_HEADER", "READ_BODY"}
  /\ conn' = [conn EXCEPT !.pc = "CLOSED"]
  /\ UNCHANGED <<dev, prov, hik, web, codec, pending, upstream, metrics, task, retry, now, nextEid, nextUuid,
                 recovered, removed, calls>>

\* readexactly(data_length) returns the body; process_isup_packet is called
\* with the packet and runs until it returns or waits for the upstream; when
\* it has returned the ACK is written.
ReadBody ==
  /\ conn.pc = "READ_BODY"
  /\ \E outcome \in SaveOutcomes, uuid \in FreshUuids :
       LET body   == Slice(conn.rx, HEADER_SIZE, HEADER_SIZE + conn.header.data_length)
           packet == conn.header_bytes \o body
           r      == IsupCall(packet, <<50>>, nextEid, outcome, uuid)
       IN  /\ task' = [task EXCEPT !["isup"] = r.task]
           /\ pending' = r.pending
           /\ metrics' = r.metrics
           /\ nextUuid' = r.nextUuid
           /\ calls' = r.calls
           /\ conn' = IF r.task.pc = "sending"
                      THEN [conn EXCEPT !.pc = "PROCESS"]
                      ELSE WriteAck(conn)
  /\ nextEid' = nextEid + 1
  /\ UNCHANGED <<dev, prov, hik, web, codec, upstream, retry, now, recovered, removed>>

\* process_isup_packet is called with a packet whose header the server has
\* accepted (the session it came over is left out here).
ProcessIsupPacket ==
  /\ task["isup"].pc = "idle"
  /\ nextEid <= MaxEvents
  /\ \E packet \in Frames, outcome \in SaveOutcomes, uuid \in FreshUuids :
       /\ parse_header(packet) # None
       /\ LET r == IsupCall(packet, <<50>>, nextEid, outcome, uuid)
          IN  /\ task' = [task EXCEPT !["isup"] = r.task]
              /\ pending' = r.pending
              /\ metrics' = r.metrics
              /\ nextUuid' = r.nextUuid
              /\ calls' = r.calls
  /\ nextEid' = nextEid + 1
  /\ UNCHANGED <<dev, prov, hik, web, codec, upstream, conn, retry, now, recovered, removed>>

\* process_isup_packet goes on after send_to_1c and returns; _handle_client,
\* which waited for it, writes the ACK.
IsupAfterSend ==
  /\ task["isup"].pc = "sent"
  /\ \E outcome \in SaveOutcomes, uuid \in FreshUuids :
       LET r == Finish("isup", outcome, uuid)
       IN  /\ pending' = r.pending
           /\ metrics' = r.metrics
           /\ nextUuid' = r.nextUuid
           /\ calls' = r.calls
  /\ task' = [task EXCEPT !["isup"] = IdleTask]
  /\ conn' = IF conn.pc = "PROCESS" THEN WriteAck(conn) ELSE conn
  /\ UNCHANGED <<dev, prov, hik, web, codec, upstream, retry, now, nextEid, recovered, removed>>

\* One pass of the retry loop starts: load_all, then the for loop up to its
\* first POST (or to the sleep when nothing is to be sent). iterations counts
\* the passes that loaded a record; loaded (the events load_all returned) and sinceRecovery
\* (whether the pass began after the upstream recovered) are history.
RetryLoad ==
  /\ retry.pc = "load"
  /\ retry.iterations < MaxIterations
  /\ LET batch == load_all(pending)
         r     == RetrySkip(batch, metrics)
     IN  /\ retry' = [RetryAt(r, retry) EXCEPT
                        !.iterations = IF batch = <<>> THEN @ ELSE @ + 1,
                        !.loaded = {batch[i].eid : i \in DOMAIN batch},
                        !.sinceRecovery = recovered]
         /\ metrics' = r.metrics
  /\ UNCHANGED <<dev, prov, hik, web, codec, pending, upstream, task, conn, now, nextEid, nextUuid,
                 recovered, removed, calls>>

\* The tenant's endpoint answers the POST of the retry loop.
RetryAnswer ==
  \E status \in Answers :
    /\ retry.pc = "sending"
    /\ LET ev == Head(retry.batch)
       IN  upstream' = Append(upstream,
                              Request("retry", ev, get_tenant(ev.tenant), status))
    /\ retry' = [retry EXCEPT !.pc = "sent", !.status = status]
    /\ UNCHANGED <<dev, prov, hik, web, codec, pending, metrics, task, conn, now, nextEid, nextUuid,
                   recovered, removed, calls>>

\* The retry loop goes on after send_to_1c: a delivered record is removed
\* and counted, a failed one counted; then the for loop runs on.
RetryAfterSend ==
  /\ retry.pc = "sent"
  /\ LET ev   == Head(retry.batch)
         ok   == Delivered(retry.status)
         m    == IF ok THEN [metrics EXCEPT !.events_retried_ok = @ + 1]
                 ELSE [metrics EXCEPT !.events_retried_fail = @ + 1]
         r    == RetrySkip(Tail(retry.batch), m)
     IN  /\ pending' = IF ok THEN remove(pending, ev) ELSE pending
         /\ removed' = removed \cup
              (IF ok THEN {[name |-> ev._file_path, eid |-> ev.eid,
                            age |-> now - ev.saved_at, by |-> "remove"]}
               ELSE {})
         /\ metrics' = r.metrics
         /\ retry' = RetryAt(r, retry)
  /\ UNCHANGED <<dev, prov, hik, web, codec, upstream, task, conn, now, nextEid, nextUuid, recovered, calls>>

\* asyncio.sleep(retry_interval) is over.
RetrySleep ==
  /\ retry.pc = "sleep"
  /\ retry' = [retry EXCEPT !.pc = "load"]
  /\ UNCHANGED <<dev, prov, hik, web, codec, pending, upstream, metrics, task, conn, now, nextEid, nextUuid,
                 recovered, removed, calls>>

\* EventStorage.cleanup_old runs.
CleanupOld ==
  /\ pending' = cleanup_old(pending, now)
  /\ removed' = removed \cup
       {[name |-> f.name, eid |-> f.data.eid, age |-> now - f.mtime,
         by |-> "cleanup_old"] : f \in TooOld(pending, now)}
  /\ UNCHANGED <<dev, prov, hik, web, codec, upstream, metrics, task, conn, retry, now, nextEid, nextUuid,
                 recovered, calls>>

\* Time passes: the clock moves on by more than max_days.
Tick ==
  /\ now < MaxTicks * (max_days + 1)
  /\ now' = now + max_days + 1
  /\ UNCHANGED <<dev, prov, hik, web, codec, pending, upstream, metrics, task, conn, retry, nextEid, nextUuid,
                 recovered, removed, calls>>

\* The upstream recovers: from now on it answers 2xx.
Recover ==
  /\ ~recovered
  /\ recovered' = TRUE
  /\ UNCHANGED <<dev, prov, hik, web, codec, pending, upstream, metrics, task, conn, retry, now, nextEid,
                 nextUuid, removed, calls>>

\* The processor with its two entry points, the pending store and the retry
\* loop.
Next ==
  \/ ProcessIsapiEvent
  \/ ProcessIsupPacket
  \/ UpstreamAnswer
  \/ IsapiAfterSend
  \/ IsupAfterSend
  \/ RetryLoad
  \/ RetryAnswer
  \/ RetryAfterSend
  \/ RetrySleep

Spec == Init /\ [][Next]_vars

\* The same with an upstream that fails at first and may recover.
NextRecovery ==
  \/ ProcessIsapiEvent
  \/ ProcessIsupPacket
  \/ UpstreamAnswer
  \/ IsapiAfterSend
  \/ IsupAfterSend
  \/ RetryLoad
  \/ RetryAnswer
  \/ RetryAfterSend
  \/ RetrySleep
  \/ Recover

SpecRecovery == Init /\ [][NextRecovery]_vars

\* The pending store over time: filled by webhook events whose delivery
\* failed, emptied by the retry loop and by the clean-up of old files.
NextCleanup ==
  \/ ProcessIsapiEvent
  \/ UpstreamAnswer
  \/ IsapiAfterSend
  \/ RetryLoad
  \/ RetryAnswer
  \/ RetryAfterSend
  \/ RetrySleep
  \/ CleanupOld
  \/ Tick

SpecCleanup == Init /\ [][NextCleanup]_vars

\* save_pending is called for an event of a resolved tenant: the file name
\* is drawn and the event stamped; the write is still to come. (The callers
\* are the two entry points of the processor; t names the caller.)
SaveBegin ==
  \E t \in Tasks, mac \in {Mac_aa, Mac_BB}, uuid \in FreshUuids :
    /\ task[t].pc = "idle"
    /\ nextEid <= MaxSaves
    /\ LET tenant == find_tenant_by_mac(mac)
           event  == enrich_event(tenant, [IsapiEvent(mac) EXCEPT
                                             !.eid = nextEid,
                                             !.timestamp = IngestionTime])
       IN  task' = [task EXCEPT ![t] =
                      [ pc |-> "saving", ev |-> Stamped(event, uuid, now),
                        tenant |-> tenant, key |-> mac, status |-> -1 ]]
    /\ nextEid' = nextEid + 1
    /\ nextUuid' = uuid + 1
    /\ UNCHANGED <<dev, prov, hik, web, codec, pending, upstream, metrics, conn, retry, now, recovered,
                   removed, calls>>

\* save_pending opens the file and dumps the event, or fails doing so, and
\* returns.
SaveWrite ==
  \E t \in Tasks, outcome \in SaveOutcomes :
    /\ task[t].pc = "saving"
    /\ LET ev == task[t].ev
       IN  /\ pending' = save_pending(pending, ev, ev._pending_id, ev.saved_at, outcome)
           /\ calls' = calls \cup
                {Returned(t, ev, task[t].key, task[t].tenant, outcome = "ok", -1,
                          outcome)}
    /\ task' = [task EXCEPT ![t] = IdleTask]
    /\ UNCHANGED <<dev, prov, hik, web, codec, upstream, metrics, conn, retry, now, nextEid, nextUuid,
                   recovered, removed>>

\* The process is killed while save_pending writes: the file is there (open
\* has created it) with none or a part of the JSON text in it. Every
\* running call is gone; the retry loop starts anew with the next process.
CrashDuringSave ==
  \E t \in Tasks :
    /\ task[t].pc = "saving"
    /\ LET ev == task[t].ev
       IN  /\ pending' = save_pending(pending, ev, ev._pending_id, ev.saved_at,
                                      "write_error")
           /\ calls' = calls \cup
                {Returned(t, ev, task[t].key, task[t].tenant, FALSE, -1, "crash")}
    /\ task' = [u \in Tasks |-> IdleTask]
    /\ retry' = [retry EXCEPT !.pc = "load", !.batch = <<>>, !.status = -1]
    /\ UNCHANGED <<dev, prov, hik, web, codec, upstream, metrics, conn, now, nextEid, nextUuid,
                   recovered, removed>>

\* The pending store on its own: concurrent calls of save_pending, the
\* retry loop (load_all, remove) beside them, and a crash.
NextStore ==
  \/ SaveBegin
  \/ SaveWrite
  \/ CrashDuringSave
  \/ RetryLoad
  \/ RetryAnswer
  \/ RetryAfterSend
  \/ RetrySleep

SpecStore == Init /\ [][NextStore]_vars

\* make_ack is called for the sequence number.
MakeAck ==
  /\ codec.pc = "seq"
  /\ codec' = [codec EXCEPT !.pc = "ack", !.ack = make_ack(codec.seq)]
  /\ UNCHANGED <<dev, prov, hik, web, pending, upstream, metrics, task, conn, retry, now, nextEid,
                 nextUuid, recovered, removed, calls>>

\* parse is called with the ACK.
ParseAck ==
  /\ codec.pc = "ack"
  /\ codec' = [codec EXCEPT !.pc = "parsed", !.parsed = parse(codec.ack, strict_mode)]
  /\ UNCHANGED <<dev, prov, hik, web, pending, upstream, metrics, task, conn, retry, now, nextEid,
                 nextUuid, recovered, removed, calls>>

\* The codec on its own: an ACK is built for a sequence number and handed to
\* the frame parser.
InitCodec ==
  /\ pending = {}
  /\ upstream = <<>>
  /\ metrics = [ events_ok |-> 0, events_failed |-> 0, events_retried_ok |-> 0,
                 events_retried_fail |-> 0, connections_total |-> 0,
                 events_received |-> 0 ]
  /\ task = [t \in Tasks |-> IdleTask]
  /\ conn = NoConn
  /\ retry = [pc |-> "load", batch |-> <<>>, status |-> -1, iterations |-> 0,
              loaded |-> {}, sinceRecovery |-> FALSE]
  /\ now = 0
  /\ nextEid = 1
  /\ nextUuid = 1
  /\ recovered = FALSE
  /\ removed = {}
  /\ calls = {}
  /\ \E seq \in SeqInputs : codec = [NoCodec EXCEPT !.pc = "seq", !.seq = seq]
  /\ web = NoWeb(Null)
  /\ dev = NoDevice
  /\ prov = NoProv
  /\ hik = NoHik

NextCodec ==
  \/ MakeAck
  \/ ParseAck

SpecCodec == InitCodec /\ [][NextCodec]_vars

\* One ISUP connection from accept to close, with the processor behind it
\* and an upstream that answers every request with a 2xx status.
InitIsup ==
  /\ pending = {}
  /\ upstream = <<>>
  /\ metrics = [ events_ok |-> 0, events_failed |-> 0, events_retried_ok |-> 0,
                 events_retried_fail |-> 0, connections_total |-> 0,
                 events_received |-> 0 ]
  /\ task = [t \in Tasks |-> IdleTask]
  /\ conn = NoConn
  /\ retry = [pc |-> "load", batch |-> <<>>, status |-> -1, iterations |-> 0,
              loaded |-> {}, sinceRecovery |-> FALSE]
  /\ now = 0
  /\ nextEid = 1
  /\ nextUuid = 1
  /\ recovered = TRUE
  /\ removed = {}
  /\ calls = {}
  /\ codec = NoCodec
  /\ web = NoWeb(Null)
  /\ dev = NoDevice
  /\ prov = NoProv
  /\ hik = NoHik

NextIsup ==
  \/ Accept
  \/ ReadHeader
  \/ ShortRead
  \/ ReadBody
  \/ UpstreamAnswer
  \/ IsupAfterSend

SpecIsup == InitIsup /\ [][NextIsup]_vars

\* The webhook on its own: requests arrive at a handler constructed with or
\* without a secret, the processor behind it.
InitWebhook ==
  /\ pending = {}
  /\ upstream = <<>>
  /\ metrics = [ events_ok |-> 0, events_failed |-> 0, events_retried_ok |-> 0,
                 events_retried_fail |-> 0, connections_total |-> 0,
                 events_received |-> 0 ]
  /\ task = [t \in Tasks |-> IdleTask]
  /\ conn = NoConn
  /\ retry = [pc |-> "load", batch |-> <<>>, status |-> -1, iterations |-> 0,
              loaded |-> {}, sinceRecovery |-> FALSE]
  /\ now = 0
  /\ nextEid = 1
  /\ nextUuid = 1
  /\ recovered = FALSE
  /\ removed = {}
  /\ calls = {}
  /\ codec = NoCodec
  /\ \E secret_token \in SecretTokens : web = NoWeb(secret_token)
  /\ dev = NoDevice
  /\ prov = NoProv
  /\ hik = NoHik

\* ISAPIWebhookHandler.handle answers one request. When it comes to
\* _process_event, the XML is parsed and the event's dict handed to
\* process_isapi_event; the dict has no mac_address, so the processor finds
\* no tenant and returns False without waiting, and the reply is "accepted".
HandleRequest ==
  /\ web.served < MaxRequests
  /\ task["isapi"].pc = "idle"
  /\ \E request \in Requests :
     \E h \in {handle(request, web.secret_token, web.cache, web.time)} :
     \E event \in {IF h.xml = Null THEN None ELSE xml_parse(h.xml, h.images)} :
       IF event = None
       THEN /\ web' = [web EXCEPT !.cache = h.cache, !.served = @ + 1,
                                  !.request = request,
                                  !.status = IF h.xml = Null THEN h.status ELSE 400,
                                  !.reply = IF h.xml = Null THEN h.reply
                                            ELSE "parse_error",
                                  !.dispatched = FALSE,
                                  !.event = None, !.images = Null]
            /\ UNCHANGED <<task, pending, metrics, nextUuid, calls, nextEid>>
       ELSE LET dict == to_dict(event)
                ev   == [dict EXCEPT
                           !.eid = nextEid, !.event_source = "ISAPI",
                           !.client_ip = OrElse(request.remote, Unknown),
                           !.timestamp = normalize_ts(dict.timestamp)]
            IN  \E outcome \in SaveOutcomes, uuid \in FreshUuids :
                LET r == Route("isapi", ev, ev.mac_address, outcome, uuid) IN
                /\ r.task = IdleTask
                /\ web' = [web EXCEPT !.cache = h.cache, !.served = @ + 1,
                                      !.request = request, !.status = 200,
                                      !.reply = "accepted", !.dispatched = TRUE,
                                      !.event = ev,
                                      !.images = dict_get(event, "image_ids",
                                                          event.image_ids)]
                /\ task' = [task EXCEPT !["isapi"] = r.task]
                /\ pending' = r.pending
                /\ metrics' = r.metrics
                /\ nextUuid' = r.nextUuid
                /\ calls' = r.calls
                /\ nextEid' = nextEid + 1
  /\ UNCHANGED <<dev, prov, hik, codec, upstream, conn, retry, now, recovered, removed>>

\* time.time() moves on.
WebTick ==
  /\ web.time < MaxWebTicks * TickSeconds
  /\ web' = [web EXCEPT !.time = @ + TickSeconds]
  /\ UNCHANGED <<dev, prov, hik, codec, pending, upstream, metrics, task, conn, retry, now,
                 nextEid, nextUuid, recovered, removed, calls>>

NextWebhook ==
  \/ HandleRequest
  \/ WebTick

SpecWebhook == InitWebhook /\ [][NextWebhook]_vars

\* The device client on its own.
InitDevice ==
  /\ pending = {}
  /\ upstream = <<>>
  /\ metrics = [ events_ok |-> 0, events_failed |-> 0, events_retried_ok |-> 0,
                 events_retried_fail |-> 0, connections_total |-> 0,
                 events_received |-> 0 ]
  /\ task = [t \in Tasks |-> IdleTask]
  /\ conn = NoConn
  /\ retry = [pc |-> "load", batch |-> <<>>, status |-> -1, iterations |-> 0,
              loaded |-> {}, sinceRecovery |-> FALSE]
  /\ now = 0
  /\ nextEid = 1
  /\ nextUuid = 1
  /\ recovered = FALSE
  /\ removed = {}
  /\ calls = {}
  /\ codec = NoCodec
  /\ web = NoWeb(Null)
  /\ dev = NoDevice
  /\ prov = NoProv
  /\ hik = NoHik

\* The device client on its own: _request is called again and again on one
\* client, the terminal answering as it likes.

\* _request sends the first attempt, without Authorization.
RequestSend ==
  /\ dev.pc = "idle"
  /\ dev.done < MaxDeviceRequests
  /\ \E request \in DeviceRequests :
       dev' = [dev EXCEPT !.pc = "first", !.request = request,
                          !.sent = << [Authorization |-> Null] >>,
                          !.answers = <<>>, !.result = ""]
  /\ UNCHANGED <<prov, hik, web, codec, pending, upstream, metrics, task, conn,
                 retry, now, nextEid, nextUuid, recovered, removed, calls>>

\* The first attempt is answered. Anything but 401, a 401 without a Digest
\* challenge, or a challenge update_from_challenge does not take, is
\* returned as it is; otherwise the Authorization header is built and the
\* retry sent.
FirstAnswer ==
  /\ dev.pc = "first"
  /\ \E resp \in FirstResponses, fresh \in FreshCnonces :
       LET returned == [dev EXCEPT !.pc = "idle", !.answers = <<resp>>,
                                   !.result = "returned", !.done = @ + 1]
       IN  IF resp.status # 401 THEN dev' = returned
           ELSE IF OrElse(resp.www, <<>>) = <<>>
                   \/ ~Contains(Lower(resp.www), <<100, 105, 103, 101, 115, 116>> (* digest *))
           THEN dev' = returned
           ELSE \E u \in {update_from_challenge(dev.digest, resp.www)} :
                LET seen == Append(dev.log, [kind |-> "challenge", www |-> resp.www,
                                             taken |-> u.ok, nc |-> Null, count |-> 0])
                IN  IF ~u.ok THEN dev' = [returned EXCEPT !.log = seen]
                    ELSE \E b \in {build_authorization_header(u.digest, Username,
                                     Password, dev.request[1], dev.request[2], fresh)} :
                         IF b.raised
                         THEN dev' = [returned EXCEPT !.digest = b.digest, !.log = seen,
                                                      !.result = "RuntimeError"]
                         ELSE dev' = [dev EXCEPT
                                !.pc = "second", !.answers = <<resp>>,
                                !.digest = b.digest,
                                !.sent = Append(@, retry_headers(dev.sent[1], b.header)),
                                !.log = Append(seen,
                                  [kind |-> "header", www |-> Null, taken |-> FALSE,
                                   nc |-> Get(b.header, "nc"), count |-> b.digest.nc])]
  /\ UNCHANGED <<prov, hik, web, codec, pending, upstream, metrics, task, conn,
                 retry, now, nextEid, nextUuid, recovered, removed, calls>>

\* The retry is answered: the response is returned whatever its status.
RetryAnswer2 ==
  /\ dev.pc = "second"
  /\ \E resp \in RetryResponses :
       dev' = [dev EXCEPT !.pc = "idle", !.answers = Append(@, resp),
                          !.result = "returned", !.done = @ + 1]
  /\ UNCHANGED <<prov, hik, web, codec, pending, upstream, metrics, task, conn,
                 retry, now, nextEid, nextUuid, recovered, removed, calls>>

\* session.request raises (no connection, timeout): _request raises.
RequestRaises ==
  /\ dev.pc \in {"first", "second"}
  /\ dev' = [dev EXCEPT !.pc = "idle", !.result = "ClientError", !.done = @ + 1]
  /\ UNCHANGED <<prov, hik, web, codec, pending, upstream, metrics, task, conn,
                 retry, now, nextEid, nextUuid, recovered, removed, calls>>

NextDevice ==
  \/ RequestSend
  \/ FirstAnswer
  \/ RetryAnswer2
  \/ RequestRaises

SpecDevice == InitDevice /\ [][NextDevice]_vars

\* The alert stream on its own: run() and stop() are called, the terminal
\* answers and sends parts as it likes.

AfterStreamGivesUp(h) == [h EXCEPT !.pc = "done"]

\* The loop of run() after _connect_and_stream has returned or raised:
\* asleep before the next attempt while the client is running, left
\* otherwise.
AfterStream(h) ==
  IF loop_continues(h.running) THEN [h EXCEPT !.pc = "sleep"]
  ELSE [h EXCEPT !.pc = "done"]

\* A connection attempt begins: session.get(url) is sent without
\* Authorization.
Connecting(h) ==
  [h EXCEPT !.pc = "connect", !.attempts = @ + 1, !.chunks = 0,
            !.sent = << [Authorization |-> Null] >>, !.answers = <<>>,
            !.boundary = <<>>, !.buffer = <<>>]

\* run() is called on a client that is not running and whose loop, if it
\* ever ran, has left. (Called on a running client it returns at once and
\* changes nothing.)
Run ==
  /\ ~hik.stream.running
  /\ hik.stream.pc \in {"idle", "done"}
  /\ hik.stream.attempts < MaxAttempts
  /\ hik' = [hik EXCEPT !.stream = Connecting([hik.stream EXCEPT !.running = TRUE])]
  /\ UNCHANGED <<dev, prov, web, codec, pending, upstream, metrics, task, conn,
                 retry, now, nextEid, nextUuid, recovered, removed, calls>>

\* stop() is called on a running client.
Stop ==
  /\ hik.stream.running
  /\ hik' = [hik EXCEPT !.stream.running = FALSE]
  /\ UNCHANGED <<dev, prov, web, codec, pending, upstream, metrics, task, conn,
                 retry, now, nextEid, nextUuid, recovered, removed, calls>>

\* The GET of the stream is answered. A 401 without WWW-Authenticate
\* raises; any other 401 is retried once with the Authorization header
\* built from the challenge; any other status opens the stream.
ConnectAnswer ==
  /\ hik.stream.pc = "connect"
  /\ \E resp \in StreamFirstResponses, fresh \in FreshCnonces :
       LET h == [hik.stream EXCEPT !.answers = <<resp>>]
       IN  IF resp.status = 401
           THEN IF OrElse(resp.www, <<>>) = <<>>
                THEN hik' = [hik EXCEPT !.stream = AfterStream(h)]
                ELSE hik' = [hik EXCEPT !.stream =
                       [h EXCEPT !.pc = "auth",
                                 !.sent = Append(@, [Authorization |->
                                    build_digest_header(resp.www, Username, Password,
                                                        StreamUri, fresh)])]]
           ELSE hik' = [hik EXCEPT !.stream =
                  [h EXCEPT !.pc = "stream",
                            !.boundary = extract_boundary(resp.content_type)]]
  /\ UNCHANGED <<dev, prov, web, codec, pending, upstream, metrics, task, conn,
                 retry, now, nextEid, nextUuid, recovered, removed, calls>>

\* The retry is answered: a second 401 raises, any other status opens the
\* stream.
AuthAnswer ==
  /\ hik.stream.pc = "auth"
  /\ \E resp \in StreamRetryResponses :
       LET h == [hik.stream EXCEPT !.answers = Append(@, resp)]
       IN  IF resp.status = 401
           THEN hik' = [hik EXCEPT !.stream = AfterStream(h)]
           ELSE hik' = [hik EXCEPT !.stream =
                  [h EXCEPT !.pc = "stream",
                            !.boundary = extract_boundary(resp.content_type)]]
  /\ UNCHANGED <<dev, prov, web, codec, pending, upstream, metrics, task, conn,
                 retry, now, nextEid, nextUuid, recovered, removed, calls>>

\* A chunk of the stream arrives at a running client: it joins the buffer,
\* the complete parts of the buffer are parsed and the events of its XML
\* parts given to the dispatcher.
Chunk ==
  /\ hik.stream.pc = "stream"
  /\ hik.stream.running
  /\ hik.stream.chunks < MaxChunks
  /\ \E chunk \in StreamChunks :
     \E b \in {process_buffer(hik.stream.buffer \o chunk, hik.stream.boundary)} :
     \E events \in {handle_parts(b.parts)} :
       hik' = [hik EXCEPT
         !.stream = [hik.stream EXCEPT
            !.chunks = @ + 1, !.buffer = b.remainder,
            !.parsed = @ \o events,
            !.handled = @ \o [k \in 1..Len(events) |->
                                handle_event(events[k]).handler]],
         !.enqueued = @ \o SelectSeq(events,
                           LAMBDA e : handle_event(e).enqueued)]
  /\ UNCHANGED <<dev, prov, web, codec, pending, upstream, metrics, task, conn,
                 retry, now, nextEid, nextUuid, recovered, removed, calls>>

\* A chunk of the stream arrives at a client that has been stopped: the
\* stream is left, the chunk dropped.
StreamLeaves ==
  /\ hik.stream.pc = "stream"
  /\ ~hik.stream.running
  /\ hik' = [hik EXCEPT !.stream = AfterStream(hik.stream)]
  /\ UNCHANGED <<dev, prov, web, codec, pending, upstream, metrics, task, conn,
                 retry, now, nextEid, nextUuid, recovered, removed, calls>>

\* The attempt ends without a chunk in hand: session.get raises, the read
\* times out (sock_read) or the terminal closes the stream.
StreamEnds ==
  /\ hik.stream.pc \in {"connect", "auth", "stream"}
  /\ hik' = [hik EXCEPT !.stream = AfterStream(hik.stream)]
  /\ UNCHANGED <<dev, prov, web, codec, pending, upstream, metrics, task, conn,
                 retry, now, nextEid, nextUuid, recovered, removed, calls>>

\* asyncio.sleep(reconnect_delay) is over: the next attempt begins, or the
\* loop is left.
Wake ==
  /\ hik.stream.pc = "sleep"
  /\ ~loop_continues(hik.stream.running) \/ hik.stream.attempts < MaxAttempts
  /\ hik' = [hik EXCEPT !.stream =
        IF loop_continues(hik.stream.running) THEN Connecting(hik.stream)
        ELSE [hik.stream EXCEPT !.pc = "done"]]
  /\ UNCHANGED <<dev, prov, web, codec, pending, upstream, metrics, task, conn,
                 retry, now, nextEid, nextUuid, recovered, removed, calls>>

\* HikvisionCallbackHandler.handle of callback_listener.py answers a
\* callback (no secret configured, the body is XML). Without XML the reply
\* is 400. Otherwise the XML is parsed and dispatcher.dispatch(events)
\* called: HikvisionEventDispatcher has no attribute dispatch, the call
\* raises AttributeError before anything is forwarded, and the request is
\* answered 500.
CallbackRequest ==
  /\ hik.callback.served < MaxCallbacks
  /\ \E body \in CallbackBodies :
       hik' = [hik EXCEPT !.callback =
         [ served |-> hik.callback.served + 1, body |-> body,
           events |-> IF body = <<>> THEN <<>> ELSE CallbackEvents[body],
           status |-> IF body = <<>> THEN 400 ELSE 500 ]]
  /\ UNCHANGED <<dev, prov, web, codec, pending, upstream, metrics, task, conn,
                 retry, now, nextEid, nextUuid, recovered, removed, calls>>

NextStream ==
  \/ Run
  \/ Stop
  \/ ConnectAnswer
  \/ AuthAnswer
  \/ Chunk
  \/ StreamLeaves
  \/ StreamEnds
  \/ Wake

\* The alert stream alone.
SpecStream == InitDevice /\ [][NextStream]_vars

\* Every wait of the loop ends: aiohttp's timeouts (sock_connect,
\* sock_read) bound the wait for an answer and for a chunk, a stopped
\* client leaves the stream at the next chunk, and asyncio.sleep returns.
FairStream ==
  /\ SpecStream
  /\ WF_vars(StreamEnds \/ StreamLeaves)
  /\ WF_vars(Wake)

NextHikvision ==
  \/ NextStream
  \/ CallbackRequest

\* The alert stream and the callback listener, one dispatcher behind both.
SpecHikvision == InitDevice /\ [][NextHikvision]_vars

\* The two HTTP clients with Digest authentication, the device client and
\* the alert stream, one of them at work in a run (they share no state).
NextClients ==
  \/ hik = NoHik /\ NextDevice
  \/ dev = NoDevice /\ NextStream

SpecClients == InitDevice /\ [][NextClients]_vars

\* auto_configure_terminals(webhook_base) is called on a manager with some
\* terminals: the callback URL is built and the loop runs to its first wait.
AutoConfigure ==
  /\ prov.pc = "idle"
  /\ \E terminals \in TerminalLists, webhook_base \in WebhookBases :
       prov' = Goto([prov EXCEPT !.terminals = terminals,
                                 !.webhook_base = webhook_base,
                                 !.callback_url = callback_url(webhook_base)], 1)
  /\ UNCHANGED <<dev, hik, web, codec, pending, upstream, metrics, task, conn,
                 retry, now, nextEid, nextUuid, recovered, removed, calls>>

\* client.is_reachable() returns.
IsReachable ==
  /\ prov.pc = "is_reachable"
  /\ \E reachable \in BOOLEAN :
     \E p \in {[prov EXCEPT !.calls = Append(@,
                  [terminal |-> prov.i, method |-> "is_reachable",
                   arg |-> Null, result |-> reachable])]} :
       prov' = IF reachable
               THEN [p EXCEPT !.pc = "get_device_info"]
               ELSE Goto(p, Continue(p.i, Len(p.terminals)))
  /\ UNCHANGED <<dev, hik, web, codec, pending, upstream, metrics, task, conn,
                 retry, now, nextEid, nextUuid, recovered, removed, calls>>

\* client.get_device_info() returns.
GetDeviceInfo ==
  /\ prov.pc = "get_device_info"
  /\ \E info \in DeviceInfos :
     \E p \in {[prov EXCEPT !.calls = Append(@,
                  [terminal |-> prov.i, method |-> "get_device_info",
                   arg |-> Null, result |-> info])]} :
       prov' = IF info.none \/ info.device_id = Null \/ info.device_id = <<>>
                  \/ ~is_valid_device_id(info.device_id)
               THEN Goto(p, Continue(p.i, Len(p.terminals)))
               ELSE [p EXCEPT !.pc = "configure_http_host"]
  /\ UNCHANGED <<dev, hik, web, codec, pending, upstream, metrics, task, conn,
                 retry, now, nextEid, nextUuid, recovered, removed, calls>>

\* client.configure_http_host(callback_url) returns; what it returns is not
\* looked at.
ConfigureHttpHost ==
  /\ prov.pc = "configure_http_host"
  /\ \E ok \in BOOLEAN :
       prov' = [prov EXCEPT
         !.calls = Append(@, [terminal |-> prov.i,
                              method |-> "configure_http_host",
                              arg |-> prov.callback_url, result |-> ok]),
         !.pc = "enable_events"]
  /\ UNCHANGED <<dev, hik, web, codec, pending, upstream, metrics, task, conn,
                 retry, now, nextEid, nextUuid, recovered, removed, calls>>

\* client.enable_events(EVENT_TYPES) returns; the loop goes on.
EnableEvents ==
  /\ prov.pc = "enable_events"
  /\ \E ok \in BOOLEAN :
       prov' = Goto([prov EXCEPT
         !.calls = Append(@, [terminal |-> prov.i, method |-> "enable_events",
                              arg |-> EVENT_TYPES, result |-> ok])],
         Continue(prov.i, Len(prov.terminals)))
  /\ UNCHANGED <<dev, hik, web, codec, pending, upstream, metrics, task, conn,
                 retry, now, nextEid, nextUuid, recovered, removed, calls>>

NextProvision ==
  \/ AutoConfigure
  \/ IsReachable
  \/ GetDeviceInfo
  \/ ConfigureHttpHost
  \/ EnableEvents

SpecProvision == InitDevice /\ [][NextProvision]_vars


\* The read loop of _connect_and_stream on its own: a body arrives cut into
\* chunks in any way, each chunk is added to the remainder of the one before
\* and the buffer given to _process_buffer.
InitFeed ==
  /\ InitDevice
  /\ hik.feed = NoFeed

Body ==
  /\ hik.feed.body = <<>>
  /\ hik.stream = NoStream /\ hik.callback = NoCallback
  /\ \E body \in StreamBodies :
       hik' = [hik EXCEPT !.feed = [NoFeed EXCEPT !.body = body]]
  /\ UNCHANGED <<dev, prov, web, codec, pending, upstream, metrics, task, conn,
                 retry, now, nextEid, nextUuid, recovered, removed, calls>>

Feed ==
  /\ hik.feed.at < Len(hik.feed.body)
  /\ \E n \in 1..(Len(hik.feed.body) - hik.feed.at) :
     \E b \in {process_buffer(
                 hik.feed.remainder
                   \o SubSeq(hik.feed.body, hik.feed.at + 1, hik.feed.at + n),
                 FeedBoundary)} :
       hik' = [hik EXCEPT !.feed =
                 [@ EXCEPT !.at = @ + n,
                           !.first = IF hik.feed.at = 0 THEN n ELSE @,
                           !.remainder = b.remainder,
                           !.parts = @ \o b.parts]]
  /\ UNCHANGED <<dev, prov, web, codec, pending, upstream, metrics, task, conn,
                 retry, now, nextEid, nextUuid, recovered, removed, calls>>

NextFeed ==
  \/ Body
  \/ Feed

SpecFeed == InitFeed /\ [][NextFeed]_vars


\* The retry loop of a bridge that starts with the files of an earlier run
\* in its store.
InitLeftover ==
  /\ pending \in LeftoverStores
  /\ upstream = <<>>
  /\ metrics = [ events_ok |-> 0, events_failed |-> 0, events_retried_ok |-> 0,
                 events_retried_fail |-> 0, connections_total |-> 0,
                 events_received |-> 0 ]
  /\ task = [t \in Tasks |-> IdleTask]
  /\ conn = NoConn
  /\ retry = [pc |-> "load", batch |-> <<>>, status |-> -1, iterations |-> 0,
              loaded |-> {}, sinceRecovery |-> FALSE]
  /\ now = 0
  /\ nextEid = 1
  /\ nextUuid = 1
  /\ recovered = FALSE
  /\ removed = {}
  /\ calls = {}
  /\ codec = NoCodec
  /\ web = NoWeb(Null)
  /\ dev = NoDevice
  /\ prov = NoProv
  /\ hik = NoHik

\* storage.load_all() raises (the directory cannot be listed): the
\* "except Exception" of the loop logs it and the loop goes to its sleep.
RetryRaises ==
  /\ retry.pc = "load"
  /\ retry' = [retry EXCEPT !.pc = "sleep", !.batch = <<>>, !.status = -1]
  /\ UNCHANGED <<dev, prov, hik, web, codec, pending, upstream, metrics, task,
                 conn, now, nextEid, nextUuid, recovered, removed, calls>>

NextLeftover ==
  \/ RetryLoad
  \/ RetryRaises
  \/ RetryAnswer
  \/ RetryAfterSend
  \/ RetrySleep

SpecLeftover == InitLeftover /\ [][NextLeftover]_vars

\* send_to_1c returns (its POST has a timeout of 5 s), the code after it
\* runs, asyncio.sleep returns, and load_all returns or raises.
FairLeftover ==
  /\ SpecLeftover
  /\ WF_vars(RetryAnswer)
  /\ WF_vars(RetryAfterSend)
  /\ WF_vars(RetrySleep)
  /\ WF_vars(RetryLoad \/ RetryRaises)


\* The frame parser on its own: a device sends an access-event frame whose
\* body is cut to any length, and parse is called with it.
SendFrame ==
  /\ codec.pc = "none"
  /\ \E n \in 0..MaxBodyLen, direction \in {1, 2, 3}, result \in {0, 1} :
       codec' = [codec EXCEPT
         !.pc = "frame",
         !.body = EventBodyOf(n, direction, result),
         !.frame = Frame(<<35, 35>>, Mac_aa, U32(0, n),
                         EventBodyOf(n, direction, result), TRUE)]
  /\ UNCHANGED <<dev, prov, hik, web, pending, upstream, metrics, task, conn,
                 retry, now, nextEid, nextUuid, recovered, removed, calls>>

ParseFrame ==
  /\ codec.pc = "frame"
  /\ codec' = [codec EXCEPT !.pc = "event",
                            !.parsed = parse(codec.frame, strict_mode)]
  /\ UNCHANGED <<dev, prov, hik, web, pending, upstream, metrics, task, conn,
                 retry, now, nextEid, nextUuid, recovered, removed, calls>>

NextFrame ==
  \/ SendFrame
  \/ ParseFrame

SpecFrame == InitDevice /\ [][NextFrame]_vars


\* MultipartParser.parse on its own: a body is built, then parsed with its
\* boundary.
InitScan ==
  /\ InitDevice
  /\ hik.scan = NoScan

Stream ==
  /\ hik.scan.pc = "idle"
  /\ hik.stream = NoStream /\ hik.callback = NoCallback /\ hik.feed = NoFeed
  /\ \E kinds \in SegmentLists, closing \in Closings :
       hik' = [hik EXCEPT !.scan = [NoScan EXCEPT !.pc = "stream",
                                                  !.kinds = kinds,
                                                  !.closing = closing]]
  /\ UNCHANGED <<dev, prov, web, codec, pending, upstream, metrics, task, conn,
                 retry, now, nextEid, nextUuid, recovered, removed, calls>>

Scan ==
  /\ hik.scan.pc = "stream"
  /\ hik' = [hik EXCEPT !.scan.pc = "done",
                        !.scan.parts =
                           multipart_parse(StreamOf(hik.scan.kinds, hik.scan.closing),
                                           FeedBoundary)]
  /\ UNCHANGED <<dev, prov, web, codec, pending, upstream, metrics, task, conn,
                 retry, now, nextEid, nextUuid, recovered, removed, calls>>

NextScan ==
  \/ Stream
  \/ Scan

SpecScan == InitScan /\ [][NextScan]_vars

\* CallbackParser.parse on its own: a document is built, then parsed.
InitBatch ==
  /\ InitDevice
  /\ hik.batch = NoBatch

Document ==
  /\ hik.batch.pc = "idle"
  /\ hik.stream = NoStream /\ hik.callback = NoCallback /\ hik.feed = NoFeed
  /\ hik.scan = NoScan
  /\ \E alerts \in AlertLists, broken \in BOOLEAN :
       hik' = [hik EXCEPT !.batch = [NoBatch EXCEPT !.pc = "document",
                                                    !.alerts = alerts,
                                                    !.broken = broken]]
  /\ UNCHANGED <<dev, prov, web, codec, pending, upstream, metrics, task, conn,
                 retry, now, nextEid, nextUuid, recovered, removed, calls>>

ParseDocument ==
  /\ hik.batch.pc = "document"
  /\ hik' = [hik EXCEPT !.batch.pc = "done",
                        !.batch.events =
                           callback_parse(DocumentOf(hik.batch.alerts, hik.batch.broken))]
  /\ UNCHANGED <<dev, prov, web, codec, pending, upstream, metrics, task, conn,
                 retry, now, nextEid, nextUuid, recovered, removed, calls>>

NextBatch ==
  \/ Document
  \/ ParseDocument

SpecBatch == InitBatch /\ [][NextBatch]_vars

\* HikvisionCallbackHandler.handle answers a POST: whatever handle does is
\* inside try/except Exception, and the reply is 200.
InitListener ==
  /\ InitDevice
  /\ hik.listener = NoListener

Post ==
  /\ hik.listener.served = 0
  /\ hik.stream = NoStream /\ hik.callback = NoCallback /\ hik.feed = NoFeed
  /\ hik.scan = NoScan /\ hik.batch = NoBatch
  /\ \E request \in ListenerRequests :
     \E done \in {listener_handle(request)} :
       hik' = [hik EXCEPT !.listener =
                 [served |-> 1, request |-> request, calls |-> done.calls,
                  raised |-> done.raised, status |-> 200]]
  /\ UNCHANGED <<dev, prov, web, codec, pending, upstream, metrics, task, conn,
                 retry, now, nextEid, nextUuid, recovered, removed, calls>>

NextListener == Post

SpecListener == InitListener /\ [][NextListener]_vars

------------------------------------------------------------------------------
\* Properties.

\* The files the store holds for an event.
FilesFor(files, eid) == {f \in files : f.data.eid = eid}

\* The upstream has answered a request for the event with a 2xx status.
Answered2xx(log, eid) ==
  \E i \in DOMAIN log : log[i].eid = eid /\ log[i].status \in 200..299

\* send_to_1c has reported a request for the event as delivered.
AnsweredOk(log, eid) ==
  \E i \in DOMAIN log : log[i].eid = eid /\ log[i].status \in {200, 201, 204}

\* C1 as the specification states it: when process_isapi_event or
\* process_isup_packet returns for an event whose tenant resolved, exactly
\* one of these holds: the upstream answered 2xx for the event and the store
\* holds no file for it, or the store holds exactly one file for it.
C1_ExactlyOne ==
  [][ \A c \in calls' \ calls :
        c.tenant # "" =>
          LET files == FilesFor(pending', c.eid)
              a     == Answered2xx(upstream', c.eid) /\ files = {}
              b     == Cardinality(files) = 1
          IN  a # b ]_vars

\* C1, amended: when the call returns for an event whose tenant resolved,
\* either send_to_1c reported it delivered (200, 201 or 204) and the store
\* holds no file for it; or save_pending wrote it and the store holds exactly
\* one file for it, a readable one with the event in it; or the write failed
\* and the event is neither delivered nor readable from the store.
C1_ExactlyOneUnlessStoreError ==
  [][ \A c \in calls' \ calls :
        c.tenant # "" =>
          LET files == FilesFor(pending', c.eid)
          IN  /\ c.saved = "none" =>
                   c.result /\ AnsweredOk(upstream', c.eid) /\ files = {}
              /\ c.saved = "ok" =>
                   /\ ~c.result /\ ~AnsweredOk(upstream', c.eid)
                   /\ Cardinality(files) = 1
                   /\ \A f \in files : f.complete /\ f.data.tenant = c.tenant
              /\ c.saved \in {"open_error", "write_error"} =>
                   /\ ~c.result /\ ~AnsweredOk(upstream', c.eid)
                   /\ \A f \in files : ~f.complete ]_vars

\* A call has returned after a failed delivery with the event saved.
C1_Witness ==
  \E c \in calls :
    /\ c.tenant # "" /\ c.saved = "ok" /\ c.status = 503
    /\ Cardinality(FilesFor(pending, c.eid)) = 1

\* C2 as the specification states it: every file that has been deleted from
\* the store belongs to a record the upstream has answered 2xx for.
C2_DeletedOnlyAfter2xx ==
  \A r \in removed : Answered2xx(upstream, r.eid)

\* C2, amended: the retry loop deletes a file only after the upstream has
\* answered 2xx to its request for that record; cleanup_old deletes a file
\* only when it is older than max_days, delivered or not; and a saved file
\* leaves the store in no other way.
C2_DeletedAfter2xxOrExpiry ==
  /\ \A r \in removed :
       /\ r.by = "remove" =>
            \E i \in DOMAIN upstream :
              /\ upstream[i].eid = r.eid /\ upstream[i].via = "retry"
              /\ upstream[i].status \in 200..299
       /\ r.by = "cleanup_old" => r.age > max_days
  /\ \A c \in calls :
       c.saved \in {"ok", "write_error"} =>
         \/ FilesFor(pending, c.eid) # {}
         \/ \E r \in removed : r.eid = c.eid

\* The retry loop has deleted the file of a record it delivered.
C2_Witness ==
  \E r \in removed : r.by = "remove" /\ FilesFor(pending, r.eid) = {}

\* A device key no terminal binds to a tenant of the catalog.
Unresolved(key) ==
  \/ key = Null
  \/ key = <<>>
  \/ ~ \E i \in DOMAIN CfgTerminals :
         /\ CfgTerminals[i].mac # <<>>
         /\ Upper(CfgTerminals[i].mac) = Upper(key)
         /\ CfgTerminals[i].tenant \in DOMAIN CfgTenants

\* C3: an event whose device key resolves to no tenant is dropped: the call
\* returns False without waiting, no upstream request is ever made for the
\* event and no file of the store ever holds it.
C3_UnresolvedDropped ==
  /\ \A c \in calls :
       Unresolved(c.key) =>
         /\ ~c.result /\ c.saved = "none" /\ c.status = -1
         /\ ~ \E i \in DOMAIN upstream : upstream[i].eid = c.eid
         /\ FilesFor(pending, c.eid) = {}
         /\ ~ \E r \in removed : r.eid = c.eid
  /\ \A t \in Tasks : task[t].pc # "idle" => ~Unresolved(task[t].key)
  /\ \A i \in DOMAIN upstream : ~Unresolved(upstream[i].payload.device)
  /\ \A f \in pending : ~Unresolved(f.data.device_id)

\* An ISUP packet of an unbound device has been processed.
C3_Witness ==
  \E c \in calls : c.via = "isup" /\ c.key = Mac_CC /\ Unresolved(c.key)

\* The event was queued by a call whose request the upstream failed.
QueuedAfterFailure(eid) ==
  \E c \in calls :
    c.eid = eid /\ c.saved = "ok" /\ c.status # -1 /\ c.status \notin 200..299

\* C4 as the specification states it: when a pass of the retry loop that
\* began after the upstream started to answer 2xx is complete, every record
\* it loaded that was queued after an upstream failure is gone from the
\* store, the upstream has received its payload again and answered 2xx, and
\* events_retried_ok has counted it.
C4_DrainedAfterOnePass ==
  (retry.pc = "sleep" /\ retry.sinceRecovery) =>
    \A e \in retry.loaded :
      QueuedAfterFailure(e) =>
        /\ FilesFor(pending, e) = {}
        /\ \E i, j \in DOMAIN upstream :
             /\ upstream[i].eid = e /\ upstream[i].via # "retry"
             /\ upstream[j].eid = e /\ upstream[j].via = "retry"
             /\ upstream[j].status \in 200..299
             /\ upstream[j].payload = upstream[i].payload
        /\ metrics.events_retried_ok >= 1

\* C5 as the specification states it: while the upstream request for a
\* frame's event has not completed, the ACK for that frame is already
\* written (as many ACKs as frames).
C5_AckBeforeDelivery ==
  task["isup"].pc = "sending" => Len(conn.acks) = Len(conn.frames)

\* The ACK answers the frame with this header: a heartbeat ACK (8 bytes) for
\* a frame without body, else an ACK with the frame's sequence bytes in it.
Acknowledges(ack, header_bytes) ==
  IF Slice(header_bytes, 4, 6) = <<0, 0>>
  THEN Len(ack) = 8
  ELSE Len(ack) = 14 /\ Slice(ack, 8, 12) = Slice(header_bytes, 22, 26)

\* C6: on a connection the k-th ACK written answers the k-th frame read, at
\* most one frame is without its ACK, and none is when the next header is
\* about to be read.
C6_AcksInOrder ==
  /\ Len(conn.acks) <= Len(conn.frames)
  /\ Len(conn.frames) <= Len(conn.acks) + 1
  /\ conn.pc = "READ_HEADER" => Len(conn.acks) = Len(conn.frames)
  /\ \A k \in 1..Len(conn.acks) : Acknowledges(conn.acks[k], conn.frames[k])

\* Two different frames, a heartbeat among them, have been acknowledged.
C6_Witness ==
  /\ Len(conn.acks) = 2
  /\ Slice(conn.frames[1], 4, 6) = <<0, 0>>
  /\ Slice(conn.frames[2], 4, 6) # <<0, 0>>

\* The ACK carries data: its body starts with "OK".
DataAck(ack) == Slice(ack, 6, 8) = <<79, 75>>

\* C7: every data-carrying ACK written on the connection holds, after "OK",
\* the four sequence bytes of the header it answers, as they were received.
C7_SequenceEchoed ==
  \A k \in 1..Len(conn.acks) :
    DataAck(conn.acks[k]) =>
      Slice(conn.acks[k], 8, 12) = Slice(conn.frames[k], 22, 26)

\* A frame with sequence number 0xFFFFFFFF has been acknowledged.
C7_Witness ==
  \E k \in 1..Len(conn.acks) :
    /\ DataAck(conn.acks[k])
    /\ Slice(conn.frames[k], 22, 26) = <<255, 255, 255, 255>>

\* C8: the loop goes on to the body only for a header that starts with
\* "##"; the step that closes the connection (bad marker, short read) writes
\* no ACK, dispatches nothing and leaves no call running; and on a closed
\* connection nothing is read, written or dispatched any more.
C8_ClosedOnBadFrame ==
  [][ /\ (conn.pc = "READ_HEADER" /\ conn'.pc \notin {"READ_HEADER", "CLOSED"}) =>
           /\ conn'.pc = "READ_BODY"
           /\ Slice(conn'.header_bytes, 0, 2) = <<35, 35>>
      /\ (conn.pc # "CLOSED" /\ conn'.pc = "CLOSED") =>
           /\ conn.pc \in {"READ_HEADER", "READ_BODY"}
           /\ conn'.acks = conn.acks
           /\ task["isup"].pc = "idle"
           /\ UNCHANGED <<dev, prov, hik, web, codec, task, upstream, pending, calls, nextEid>>
      /\ conn.pc = "CLOSED" =>
           UNCHANGED <<dev, prov, hik, web, codec, conn, task, upstream, pending, calls, nextEid>> ]_vars

\* The connection was closed for a bad marker after a frame had been
\* acknowledged.
C8_Witness ==
  /\ conn.pc = "CLOSED"
  /\ conn.header = None
  /\ Slice(conn.rx, 0, 2) # <<35, 35>>
  /\ Len(conn.acks) = 1

\* The checksum field of the frame is not the CRC-16 of its other bytes.
ChecksumMismatch(frame) ==
  UnpackU16(Slice(frame, 26, 28))
    # crc16(Slice(frame, 0, 26) \o Slice(frame, 28, Len(frame)))

\* C9 as the specification states it: once the body of a frame whose
\* checksum does not match has been read, the frame is rejected: no call
\* delivers its event and the connection is closed.
C9_BadCrcRejected ==
  (conn.header # None /\ conn.pc # "READ_BODY" /\ ChecksumMismatch(conn.rx)) =>
    (conn.pc = "CLOSED" /\ task["isup"].pc = "idle")

\* C10: the step that handles a frame with data_length = 0 writes the
\* heartbeat ACK (8 bytes, no "OK" body) and nothing else, makes no upstream
\* request, saves no record, leaves no call running, and the loop goes on to
\* read the next header.
C10_HeartbeatAck ==
  [][ ( /\ conn.pc = "READ_BODY"
        /\ Slice(conn.header_bytes, 4, 6) = <<0, 0>>
        /\ conn' # conn
        /\ conn'.pc # "CLOSED" ) =>
        /\ conn'.pc = "READ_HEADER"
        /\ conn'.acks = Append(conn.acks, make_heartbeat_ack)
        /\ Len(make_heartbeat_ack) = 8 /\ ~DataAck(make_heartbeat_ack)
        /\ task'["isup"].pc = "idle"
        /\ UNCHANGED <<dev, prov, hik, web, codec, upstream, pending, calls, removed>> ]_vars

\* A heartbeat has been acknowledged and the next header has been read.
C10_Witness ==
  /\ conn.pc = "READ_BODY"
  /\ Len(conn.frames) = 2
  /\ Slice(conn.frames[1], 4, 6) = <<0, 0>>
  /\ conn.acks = <<make_heartbeat_ack>>

\* The largest frame (header and body) the server is configured to accept,
\* as the specification has it: here the header and the shortest event body.
configured_max == 54

\* C11 as the specification states it: once a header that announces more
\* than configured_max bytes of frame has been read, the connection is
\* closed and the frame is not acknowledged.
C11_OversizeClosed ==
  ( /\ conn.header # None
    /\ HEADER_SIZE + UnpackU16(Slice(conn.header_bytes, 4, 6)) > configured_max ) =>
    (conn.pc = "CLOSED" /\ Len(conn.acks) < Len(conn.frames))

\* C12 as the specification states it: the frame parser gives, for the ACK
\* built for a sequence number, a header with that sequence number.
C12_AckRoundTrip ==
  codec.pc = "parsed" =>
    /\ codec.parsed # None
    /\ codec.parsed.header.sequence_number = codec.seq

\* The requests the upstream has received from one call for one event.
Attempts(log, eid, via) ==
  {i \in DOMAIN log : log[i].eid = eid /\ log[i].via = via}

\* C13 as the specification states it: a call that has returned after its
\* upstream attempts failed transiently (network error, timeout or 5xx) has
\* made exactly 3 attempts, and no call has made more than 3.
C13_ThreeAttempts ==
  /\ \A c \in calls :
       (c.status = 0 \/ c.status \in 500..599) =>
         Cardinality(Attempts(upstream, c.eid, c.via)) = 3
  /\ \A c \in calls : Cardinality(Attempts(upstream, c.eid, c.via)) <= 3

C15_BothSaved ==
  /\ \A c \in calls :
       c.saved = "ok" =>
         \/ \E r \in removed : r.eid = c.eid
         \/ \E f \in pending : f.data.eid = c.eid /\ f.complete
  /\ \A f, g \in pending : f.data.eid # g.data.eid => f.name # g.name

\* A call of save_pending has written its file while a call that began
\* before it (its name is the older one) has not written yet.
C15_Witness ==
  /\ task["isup"].pc = "saving"
  /\ \E f \in pending :
       /\ f.complete /\ f.name > task["isup"].ev._pending_id
       /\ \E c \in calls : c.via = "isapi" /\ c.eid = f.data.eid /\ c.saved = "ok"

\* C16 as the specification states it: after a crash during save_pending
\* the store holds no file for the event or a complete record of it.
C16_CrashSafe ==
  \A c \in calls :
    c.saved = "crash" => \A f \in FilesFor(pending, c.eid) : f.complete

\* load_all, called now, returns the record of the event.
Loaded(eid) ==
  \E i \in DOMAIN load_all(pending) : load_all(pending)[i].eid = eid

\* C17 as the specification states it: a saved record is returned by
\* load_all exactly as long as remove has not been called for it.
C17_LoadedUntilRemove ==
  \A c \in calls :
    c.saved = "ok" =>
      (Loaded(c.eid) <=> ~ \E r \in removed : r.eid = c.eid /\ r.by = "remove")

\* C17, amended: a saved record is returned by load_all exactly as long as
\* neither remove has been called for it nor cleanup_old has deleted its
\* file for its age.
C17_LoadedUntilRemoveOrExpiry ==
  \A c \in calls :
    c.saved = "ok" =>
      (Loaded(c.eid) <=> ~ \E r \in removed : r.eid = c.eid)

\* A record that load_all returned in an earlier pass has been removed and
\* is not returned any more.
C17_Witness ==
  \E c \in calls :
    /\ c.saved = "ok" /\ c.eid \in retry.loaded /\ ~Loaded(c.eid)
    /\ \E r \in removed : r.eid = c.eid /\ r.by = "remove"

\* The request last answered came through the secret gate: no secret is
\* configured, or the header carries it.
PassedGate(w) == w.secret_token = Null \/ w.request.secret = w.secret_token

\* The XML a request brings itself: the XML the handler finds in its body
\* or, when it finds none, the body as text.
OwnXml(request) ==
  IF Contents[request].xml # Null THEN Contents[request].xml ELSE Decode(request.body)

\* The body is nothing but white space.
IsBlankBody(body) == \A k \in 1..Len(body) : IsWs(body[k])

\* C18: a request that passed the secret gate is answered 200 or 400; it is
\* answered 400 only when its body is not blank and its own XML does not
\* parse, and a request that brings images and no XML is answered 200.
C18_BadRequestOnlyOnParseFailure ==
  (web.served > 0 /\ PassedGate(web)) =>
    /\ web.status \in {200, 400}
    /\ web.status = 400 =>
         /\ ~IsBlankBody(web.request.body)
         /\ parse_fields(OwnXml(web.request)) = None
    /\ Contents[web.request].kind = "images" => web.status = 200

\* C19: with a secret configured, a request whose X-Webhook-Secret header
\* is missing or different is answered 401 and changes nothing else: no
\* event reaches the processor, the correlation cache, the store, the
\* counters and the upstream stay as they were.
C19_UnauthorizedNoEffect ==
  [][ ( /\ web'.served = web.served + 1
        /\ web.secret_token # Null
        /\ web'.request.secret # web.secret_token )
      => /\ web'.status = 401
         /\ ~web'.dispatched
         /\ web'.cache = web.cache
         /\ UNCHANGED <<calls, task, upstream, pending, metrics, nextEid>> ]_vars

\* An unauthorized request without the header has been answered 401 by a
\* handler whose cache holds the XML of an earlier, authorized request.
C19_Witness ==
  /\ web.served > 0
  /\ web.secret_token = Secret
  /\ web.request.secret = Null
  /\ web.status = 401
  /\ web.cache # {}

\* The body of a multipart request holds nothing but boundary markers: what
\* is left between the markers is blank, or the "--" of the closing marker.
MarkersOnly(request) ==
  /\ request.content_type \in {ContentTypeMultipart, ContentTypeNoBoundary}
  /\ Contains(request.body, <<45, 45>> (* -- *) \o Boundary)
  /\ LET chunks == Split(request.body, <<45, 45>> (* -- *) \o Boundary)
     IN  \A k \in 1..Len(chunks) :
           \/ IsBlankBody(chunks[k])
           \/ StartsWith(chunks[k], <<45, 45>> (* -- *)) /\ IsBlankBody(From(chunks[k], 2))

\* C20: a request through the gate whose body is empty or white space, or
\* a multipart body of boundary markers only, is answered 200 and changes
\* nothing: no event reaches the processor, the correlation cache and the
\* events_received counter stay as they were.
C20_HeartbeatNoEffect ==
  [][ ( /\ web'.served = web.served + 1
        /\ PassedGate(web')
        /\ IsBlankBody(web'.request.body) \/ MarkersOnly(web'.request) )
      => /\ web'.status = 200
         /\ ~web'.dispatched
         /\ web'.cache = web.cache
         /\ metrics'.events_received = metrics.events_received
         /\ UNCHANGED <<calls, task, upstream, pending, nextEid>> ]_vars

\* A body of boundary markers only has been answered 200 by a handler whose
\* cache holds the XML of an earlier request.
C20_Witness ==
  /\ web.served > 0
  /\ PassedGate(web)
  /\ web.request.body = BodyBoundaryOnly
  /\ web.request.content_type = ContentTypeMultipart
  /\ web.status = 200
  /\ web.cache # {}

\* The correlation cache holds XML received from the address at most the
\* TTL ago.
CachedWithinTtl(w, client_ip) ==
  \E i \in w.cache : i.ip = client_ip /\ w.time - i.ts <= cache_ttl_seconds

\* C21: a request through the gate that brings images and no XML is
\* answered 200; an event is handed to the processor exactly when the
\* cache holds XML from the same address at most the TTL ago, and that
\* event carries the images of the request.
C21_ImageOnlyCorrelated ==
  [][ ( /\ web'.served = web.served + 1
        /\ PassedGate(web')
        /\ Contents[web'.request].kind = "images" )
      => /\ web'.status = 200
         /\ web'.dispatched <=> CachedWithinTtl(web, web'.request.remote)
         /\ web'.dispatched =>
              web'.images = {i[1] : i \in Contents[web'.request].images} ]_vars

\* C22: a webhook event whose device identity (macAddress, else deviceID)
\* is bound to a tenant is resolved to that tenant: once the handler has
\* handed it to the processor, the processor is sending it to that tenant's
\* upstream, or its call has returned for that tenant.
C22_WebhookTenantResolved ==
  (web.dispatched /\ find_tenant_by_mac(web.event.device_id) # None) =>
    LET tenant == find_tenant_by_mac(web.event.device_id)
    IN  \/ task["isapi"].pc = "sending" /\ task["isapi"].tenant = tenant
        \/ \E c \in calls : c.eid = web.event.eid /\ c.tenant = tenant.name

\* C29: every request through the gate in which the handler finds XML,
\* multipart or not, leaves that XML in the correlation cache under the
\* client address with the time of the request, whatever becomes of its
\* processing.
C29_XmlCachedBeforeProcessing ==
  [][ ( /\ web'.served = web.served + 1
        /\ PassedGate(web')
        /\ Contents[web'.request].xml # Null )
      => \E i \in web'.cache :
           /\ i.ip = web'.request.remote
           /\ i.xml = Contents[web'.request].xml
           /\ i.ts = web.time ]_vars

\* The number a text of hexadecimal digits stands for.
RECURSIVE HexValue(_)
HexValue(s) ==
  IF s = <<>> THEN 0
  ELSE LET c == s[Len(s)]
       IN  (IF c <= 57 THEN c - 48 ELSE c - 87) + 16 * HexValue(SubSeq(s, 1, Len(s) - 1))

\* The challenges of the model that carry stale=true together with the
\* realm and the nonce every Digest challenge has.
StaleChallenges == {ChallengeStale, ChallengeStaleNoQop}

\* The entries of the client's log that are Authorization headers, the last
\* of them before entry k (0: none), and whether the client was given a
\* stale challenge since.
Headers(log) == {k \in 1..Len(log) : log[k].kind = "header"}
HeaderBefore(log, k) ==
  IF \E j \in Headers(log) : j < k
  THEN CHOOSE j \in Headers(log) : j < k /\ \A i \in Headers(log) : i < k => i <= j
  ELSE 0
StaleSince(log, j, k) ==
  \E i \in (j + 1)..(k - 1) :
    log[i].kind = "challenge" /\ log[i].www \in StaleChallenges

\* C30: the first Authorization header a client builds after a Digest
\* challenge with stale=true counts the nonce as 1 and, where the header
\* carries nc (qop in use), has nc=00000001; every other header counts one
\* more than the header before it (the first one 1) and carries that count
\* as its nc.
C30_NonceCount ==
  \A k \in Headers(dev.log) :
    LET j      == HeaderBefore(dev.log, k)
        before == IF j = 0 THEN 0 ELSE dev.log[j].count
        h      == dev.log[k]
    IN  IF StaleSince(dev.log, j, k)
        THEN /\ h.count = 1
             /\ h.nc # Null => h.nc = <<48, 48, 48, 48, 48, 48, 48, 49>> (* 00000001 *)
        ELSE /\ h.count = before + 1
             /\ h.nc # Null => Len(h.nc) = 8 /\ HexValue(h.nc) = before + 1

\* A client that has built two headers is given a stale challenge and
\* builds a third, with nc=00000001.
C30_Witness ==
  /\ Len(dev.log) = 6
  /\ dev.log[2].kind = "header" /\ dev.log[4].kind = "header"
  /\ dev.log[4].nc = <<48, 48, 48, 48, 48, 48, 48, 50>> (* 00000002 *)
  /\ dev.log[5].www = ChallengeStale
  /\ dev.log[6].kind = "header" /\ dev.log[6].nc = <<48, 48, 48, 48, 48, 48, 48, 49>> (* 00000001 *)

\* The first response of the request in hand is a 401 whose challenge gives
\* a realm and a nonce.
Challenged(d) ==
  /\ d.answers # <<>>
  /\ d.answers[1].status = 401
  /\ d.answers[1].www \in Challenges \ {ChallengeNoRealm, ChallengeEmptyRealm, ChallengeBasic}

\* C23: one call of _request, and one connection attempt of the alert
\* stream, makes at most two HTTP exchanges; the second is made only after
\* a 401 to the first, is made whenever that 401 brings a Digest challenge,
\* and then carries an Authorization header for the challenge's nonce; a
\* 401 to the retry ends the request (the stream's attempt) without a
\* further retry.
C23_OneRetry ==
  /\ Len(dev.sent) <= 2 /\ Len(dev.answers) <= Len(dev.sent)
  /\ Challenged(dev) => Len(dev.sent) = 2
  /\ Len(dev.sent) = 2 =>
       /\ dev.answers[1].status = 401
       /\ dev.sent[1].Authorization = Null
       /\ dev.sent[2].Authorization # Null
       /\ Get(dev.sent[2].Authorization, "nonce") # Null
  /\ (Len(dev.answers) = 2 /\ dev.answers[2].status = 401) =>
       dev.pc = "idle" /\ dev.result = "returned"
  /\ Len(hik.stream.sent) <= 2 /\ Len(hik.stream.answers) <= Len(hik.stream.sent)
  /\ (hik.stream.answers # <<>> /\ hik.stream.answers[1].status = 401
      /\ hik.stream.answers[1].www = ChallengeAuth) =>
       /\ Len(hik.stream.sent) = 2
       /\ Get(hik.stream.sent[2].Authorization, "nonce") = <<110, 49>> (* n1 *)
  /\ Len(hik.stream.sent) = 2 =>
       /\ hik.stream.answers[1].status = 401
       /\ hik.stream.sent[1].Authorization = Null
       /\ hik.stream.sent[2].Authorization # Null
  /\ (Len(hik.stream.answers) = 2 /\ hik.stream.answers[2].status = 401) =>
       hik.stream.pc \in {"sleep", "done"}

\* A request was challenged, retried with Authorization and answered 401
\* again, and has returned.
C23_Witness ==
  /\ dev.pc = "idle"
  /\ Len(dev.sent) = 2 /\ Len(dev.answers) = 2
  /\ dev.answers[1] = Response(401, ChallengeAuth)
  /\ dev.answers[2].status = 401
  /\ dev.sent[2].Authorization # Null

\* A connection attempt of the alert stream was challenged, retried with
\* Authorization and answered 401 again.
C23_WitnessStream ==
  /\ Len(hik.stream.sent) = 2 /\ Len(hik.stream.answers) = 2
  /\ hik.stream.answers[2].status = 401
  /\ hik.stream.pc = "sleep"

\* C24: the loop of run() begins a connection attempt only while the
\* running flag is set, and once stop() has cleared the flag of a client
\* whose loop is at work, the loop is left.
C24_StopTerminates ==
  /\ [][hik'.stream.attempts # hik.stream.attempts => hik'.stream.running]_vars
  /\ (~hik.stream.running /\ hik.stream.pc \notin {"idle", "done"})
       ~> (hik.stream.pc = "done")

\* A client was stopped while it read the stream, and its loop has left.
C24_Witness ==
  /\ ~hik.stream.running
  /\ hik.stream.pc = "done"
  /\ hik.stream.chunks > 0

\* C25: every event the alert stream has parsed from an XML part has been
\* handed to the processor's enqueue_event.
C25_StreamEventsEnqueued ==
  hik.enqueued = hik.stream.parsed

\* C26: a callback whose XML reaches dispatcher.dispatch(events) adds to
\* the calls of the processor's enqueue_event exactly the events whose
\* deviceID is in allowed_device_ids, in their order, and no other.
C26_AllowedForwarded ==
  [][ ( /\ hik'.callback.served = hik.callback.served + 1
        /\ hik'.callback.body # <<>> )
      => hik'.enqueued = hik.enqueued \o
           SelectSeq(hik'.callback.events,
                     LAMBDA e : e.deviceID \in allowed_device_ids) ]_vars

\* The calls made on the client of terminal k.
CallsOf(k) ==
  SelectSeq(prov.calls, LAMBDA c : c.terminal = k)
Configuring(made) ==
  SelectSeq(made, LAMBDA c :
    c.method \in {"configure_http_host", "enable_events"})

\* Terminal k has an address, answered is_reachable with True and
\* get_device_info with a valid device ID.
Configurable(k) ==
  /\ prov.terminals[k].ip_address \notin {Null, <<>>}
  /\ \E j \in 1..Len(prov.calls) :
       /\ prov.calls[j].terminal = k
       /\ prov.calls[j].method = "is_reachable"
       /\ prov.calls[j].result
  /\ \E j \in 1..Len(prov.calls) :
       /\ prov.calls[j].terminal = k
       /\ prov.calls[j].method = "get_device_info"
       /\ ~prov.calls[j].result.none
       /\ is_valid_device_id(prov.calls[j].result.device_id)

\* url is base, without the slashes at its end, followed by
\* /hikvision/callback.
CallbackOf(base, url) ==
  \E n \in 0..Len(base) :
    LET stem == SubSeq(base, 1, Len(base) - n)
    IN  /\ \A k \in (Len(base) - n + 1)..Len(base) : base[k] = 47
        /\ stem = <<>> \/ stem[Len(stem)] # 47
        /\ url = stem \o <<47, 104, 105, 107, 118, 105, 115, 105, 111, 110, 47, 99, 97, 108, 108, 98, 97, 99, 107>> (* /hikvision/callback *)

C28_MutationsLocked ==
  /\ \A c \in calls : c.saved # "none" => holds_lock("save_pending")
  /\ \A r \in removed : holds_lock(r.by)

\* The places of the loop inside _connect_and_stream.
InAttempt == {"connect", "auth", "stream"}

\* C31: a running alert-stream client is never out of its loop; whenever it
\* leaves _connect_and_stream (the stream ended, a read timed out, a request
\* raised, the Digest retry was answered 401) while it is running it goes to
\* sleep for reconnect_delay; a running client begins a connection attempt
\* only out of that sleep, the sleep of a running client ends in a new
\* attempt and in nothing else, and it does end.
C31_ReconnectAfterDelay ==
  /\ [](hik.stream.running => hik.stream.pc \notin {"idle", "done"})
  /\ [][ /\ (/\ hik.stream.running
             /\ hik.stream.pc \in InAttempt
             /\ hik'.stream.pc \notin InAttempt)
               => hik'.stream.pc = "sleep"
         /\ (hik.stream.running /\ hik'.stream.attempts # hik.stream.attempts)
               => hik.stream.pc = "sleep"
         /\ (/\ hik.stream.running
             /\ hik.stream.pc = "sleep"
             /\ hik'.stream.pc # "sleep")
               => /\ hik'.stream.pc = "connect"
                  /\ hik'.stream.attempts = hik.stream.attempts + 1 ]_vars
  /\ (/\ hik.stream.running
      /\ hik.stream.pc = "sleep"
      /\ hik.stream.attempts < MaxAttempts)
        ~> (hik.stream.pc = "connect" \/ ~hik.stream.running)

\* A running client whose Digest retry was answered 401 has slept and is
\* reading the stream of its next attempt.
C31_Witness ==
  /\ hik.stream.running
  /\ hik.stream.attempts = 2
  /\ hik.stream.pc = "stream"
  /\ hik.stream.chunks > 0

\* C32: once a body has been read to its end, in whatever chunks, the parts
\* handed to _handle_part are those of _process_buffer on the whole body,
\* in the same order, and nothing of the body is left in the buffer.
C32_ChunkingEquivalent ==
  (hik.feed.body # <<>> /\ hik.feed.at = Len(hik.feed.body)) =>
     /\ hik.feed.parts = Whole[hik.feed.body].parts
     /\ hik.feed.remainder = <<>>

\* The tenant name stored in the leftover record of event eid.
StoredTenant(eid) ==
  (CHOOSE f \in LeftoverFiles : f.data.eid = eid).data.tenant

\* C33: no request of the retry loop is made for a record whose stored
\* tenant is not in the catalog, no step of the loop takes the file of such
\* a record out of the store, and when a pass is over every record it
\* loaded whose tenant is in the catalog and has an api_url has been sent.
C33_MissingTenantSkipped ==
  /\ [](\A k \in 1..Len(upstream) :
          get_tenant(StoredTenant(upstream[k].eid)) # None)
  /\ [][\A f \in pending :
          get_tenant(f.data.tenant) = None => f \in pending']_vars
  /\ [](retry.pc = "sleep" =>
          \A eid \in retry.loaded :
            (/\ get_tenant(StoredTenant(eid)) # None
             /\ get_tenant(StoredTenant(eid)).api_url # "")
              => \E k \in 1..Len(upstream) :
                   upstream[k].eid = eid /\ upstream[k].via = "retry")

\* A pass over three records is over: the second, of a tenant missing from
\* the catalog, is still in the store and was not sent, the first and the
\* third were.
C33_Witness ==
  /\ retry.pc = "sleep"
  /\ retry.loaded = {1, 2, 3}
  /\ LeftoverFile(2, "GONE") \in pending
  /\ Len(upstream) = 2
  /\ upstream[1].eid = 1 /\ upstream[2].eid = 3

\* C34: the retry loop is always in one of its places (it has no way out);
\* a pass begins only when a sleep is over and a sleep ends only in a next
\* pass; and every pass, whether load_all returned nothing, raised, or
\* returned records that were sent or skipped, comes to the sleep, which
\* comes to the next pass.
C34_RetryLoopGoesOn ==
  /\ [](retry.pc \in {"load", "sending", "sent", "sleep"})
  /\ [][ /\ (retry.pc = "sleep" /\ retry' # retry) => retry'.pc = "load"
         /\ (retry'.pc = "load" /\ retry.pc # "load") => retry.pc = "sleep"
         /\ (retry.pc = "load" /\ retry' # retry)
              => retry'.pc \in {"sending", "sleep"} ]_vars
  /\ (retry.pc \in {"sending", "sent"}) ~> (retry.pc = "sleep")
  /\ (retry.pc = "load" /\ retry.iterations < MaxIterations)
       ~> (retry.pc = "sleep")
  /\ (retry.pc = "sleep") ~> (retry.pc = "load")

\* After a pass in which a delivery failed the loop has slept and is at its
\* next pass.
C34_Witness ==
  /\ retry.pc = "load"
  /\ retry.iterations = 1
  /\ metrics.events_retried_fail > 0
  /\ Len(upstream) > 0
  /\ pending # {}

\* C40: a step of the retry loop that follows an answer other than 200, 201
\* or 204 leaves every file of the store as it is and adds none, and changes
\* no counter but events_retried_fail, which grows; and no step of the loop
\* adds a file to the store.
C40_FailedRetryKeepsStore ==
  /\ [][ (/\ retry.pc = "sent"
          /\ retry.status \notin {200, 201, 204}
          /\ retry' # retry)
           => /\ pending' = pending
              /\ metrics'.events_retried_fail > metrics.events_retried_fail
              /\ metrics' = [metrics EXCEPT !.events_retried_fail =
                                              metrics'.events_retried_fail] ]_vars
  /\ [][pending' \subseteq pending]_vars

\* A delivery of the retry loop has failed, the record is still in the
\* store and counted as failed.
C40_Witness ==
  /\ retry.pc = "sleep"
  /\ Len(upstream) = 1
  /\ upstream[1].status = 503
  /\ upstream[1].eid = 1
  /\ LeftoverFile(1, "T1") \in pending
  /\ metrics.events_retried_fail = 1
  /\ metrics.events_retried_ok = 0

\* C35: a frame whose body has 25 bytes or more is parsed into an access
\* event whose verify_result is the byte at offset 24 of the body; a frame
\* with a shorter body yields no event.
C35_Body25Parsed ==
  codec.pc = "event" =>
    IF Len(codec.body) >= 25
    THEN /\ codec.parsed # None
         /\ codec.parsed.verify_result = codec.body[25]
    ELSE codec.parsed = None

\* The name of the tenant whose endpoint is url.
TenantOfUrl(url) ==
  CHOOSE n \in DOMAIN tenants : tenants[n].api_url = url

\* C36: the JSON of every request made upstream for an ISAPI event, at its
\* first delivery and when it is replayed from the pending store, has the
\* event's employee number under "employee", its card number under "card"
\* and the name of the tenant it is sent to under "tenant".
C36_PayloadFields ==
  \A k \in 1..Len(upstream) :
    upstream[k].payload.source = "ISAPI" =>
      /\ upstream[k].payload.employee = <<69, 49>> (* E1 *)
      /\ upstream[k].payload.card = <<49, 50, 51, 52>> (* 1234 *)
      /\ "tenant" \in DOMAIN upstream[k].payload
      /\ upstream[k].payload.tenant = TenantOfUrl(upstream[k].url)

\* The bodies of the segments of kinds that have one, in their order.
RECURSIVE BodiesOf(_)
BodiesOf(kinds) ==
  IF kinds = <<>> THEN <<>>
  ELSE (IF SegmentKinds[Head(kinds)].body = <<>> THEN <<>>
        ELSE <<SegmentKinds[Head(kinds)].body>>) \o BodiesOf(Tail(kinds))

\* C37: the parts MultipartParser.parse returns for a body are, in order,
\* the bodies of its segments that have a non-empty body; a segment with an
\* empty body and the closing marker give no part.
C37_OnePartPerSegment ==
  hik.scan.pc = "done" =>
    [k \in 1..Len(hik.scan.parts) |-> hik.scan.parts[k].body]
       = BodiesOf(hik.scan.kinds)

RECURSIVE LastPart(_, _)
LastPart(parts, word) ==
  IF parts = <<>> THEN Null
  ELSE IF Contains(Lower(parts[Len(parts)].content_type), word) THEN parts[Len(parts)].text
  ELSE LastPart(SubSeq(parts, 1, Len(parts) - 1), word)

\* The file names of the parts of parts whose content type has word in it.
NamesOf(parts, word) ==
  {parts[k].filename : k \in {j \in 1..Len(parts) : Contains(Lower(parts[j].content_type), word)}}

\* The file names under which images are attached to the event of a call.
Attached(call) == {call.images[k] : k \in 1..Len(call.images)}

IsXml(text) == text # Null /\ WellFormed(text, 0, <<>>, 0)
IsJson(text) == \E d \in JsonDocuments : d.text = text /\ d.parses
IsJsonEvent(text) ==
  \E d \in JsonDocuments : d.text = text /\ d.parses /\ d.value.kind = "dict" /\ d.value.len > 0
IsMultipart(request) == request.parts # <<>>
ReadAsJson(request) ==
  /\ Contains(request.content_type, <<106, 115, 111, 110>> (* json *))
  /\ ~Contains(request.content_type, <<120, 109, 108>> (* xml *))

\* The request carries a payload that parses: the body with the parser of
\* its content type, or one of the parts of a multipart body.
CarriesParseable(request) ==
  IF IsMultipart(request)
  THEN \E k \in 1..Len(request.parts) :
         \/ Contains(request.parts[k].content_type, <<120, 109, 108>> (* xml *)) /\ IsXml(request.parts[k].text)
         \/ Contains(request.parts[k].content_type, <<106, 115, 111, 110>> (* json *)) /\ IsJson(request.parts[k].text)
  ELSE IF ReadAsJson(request) THEN IsJson(request.body)
  ELSE ~Contains(request.content_type, <<109, 117, 108, 116, 105, 112, 97, 114, 116>> (* multipart *)) /\ IsXml(request.body)

\* The payload the listener selects is an event: in a multipart body the
\* last XML part, or without XML part the last JSON part; else the body.
SelectsEvent(request) ==
  IF IsMultipart(request)
  THEN IF LastPart(request.parts, <<120, 109, 108>> (* xml *)) # Null THEN IsXml(LastPart(request.parts, <<120, 109, 108>> (* xml *)))
       ELSE IsJsonEvent(LastPart(request.parts, <<106, 115, 111, 110>> (* json *)))
  ELSE IF ReadAsJson(request) THEN IsJsonEvent(request.body)
  ELSE ~Contains(request.content_type, <<109, 117, 108, 116, 105, 112, 97, 114, 116>> (* multipart *)) /\ IsXml(request.body)

\* C39 as stated: every POST is answered 200, handle_event is called at
\* most once for it, and exactly once, with the image parts of the request
\* attached, when the request carries XML or JSON that parses.
C39_ListenerDispatch ==
  hik.listener.served = 1 =>
    /\ hik.listener.status = 200
    /\ Len(hik.listener.calls) <= 1
    /\ CarriesParseable(hik.listener.request) =>
         /\ Len(hik.listener.calls) = 1
         /\ Attached(hik.listener.calls[1]) = NamesOf(hik.listener.request.parts, <<105, 109, 97, 103, 101, 47>> (* image/ *))

\* C39, amended: every POST is answered 200, also when parsing or the
\* handler raises; handle_event is called at most once for it, and exactly
\* once, with the JPEG parts of the request attached by file name, when the
\* payload the listener selects is XML that parses or a JSON object that is
\* not empty.
C39_ListenerDispatchSelected ==
  hik.listener.served = 1 =>
    /\ hik.listener.status = 200
    /\ Len(hik.listener.calls) <= 1
    /\ SelectsEvent(hik.listener.request) =>
         /\ Len(hik.listener.calls) = 1
         /\ Attached(hik.listener.calls[1]) = NamesOf(hik.listener.request.parts, <<106, 112, 101, 103>> (* jpeg *))

\* The request of test_listener.py, an XML part and a JPEG part, has been
\* answered 200 although the handler raised, with one call of handle_event
\* that carries the image.
C39_Witness ==
  /\ hik.listener.served = 1
  /\ hik.listener.status = 200
  /\ hik.listener.request.raises /\ hik.listener.raised
  /\ Len(hik.listener.request.parts) = 2
  /\ hik.listener.request.parts[1].text = ListenerXml
  /\ hik.listener.request.parts[2].filename = <<105, 109, 103, 46, 106, 112, 103>> (* img.jpg *)
  /\ Len(hik.listener.calls) = 1
  /\ hik.listener.calls[1].images = <<<<105, 109, 103, 46, 106, 112, 103>> (* img.jpg *)>>

====
